---- MODULE Spec2Model ----
(***************************************************************************)
(* The action execution framework of backend/actions: the tool invoker     *)
(* (Action.call_tool), the result helpers (complete, fail), the failure    *)
(* boundary (Action.run), the registry (ActionRegistry) and the workflows  *)
(* of backend/actions/definitions.py.                                      *)
(*                                                                         *)
(* A Python dict is a sequence of <<key, value>> entries in insertion      *)
(* order; Python None is the value None; a tool is the environment: each   *)
(* call draws its outcome (a payload, or an exception with a message).     *)
(* Exceptions are instances of Exception, as `except Exception` assumes.   *)
(***************************************************************************)
EXTENDS Integers, Sequences, FiniteSets, TLC

\* ---------------------------------------------------------------- bounds
\* register calls made after backend.actions.definitions was imported
MaxRegs == 2
\* call_tool invocations made by the execute of a custom Action subclass
MaxCalls == 2
\* meetings in a get_todays_meetings payload
MaxMeetings == 2

\* ------------------------------------------------------------ vocabulary
None == "<None>"

\* ActionStatus (base.py:24-31)
PENDING == "pending"
RUNNING == "running"
SUCCESS == "success"
PARTIAL == "partial"
FAILED  == "failed"
SKIPPED == "skipped"
ActionStatus == {PENDING, RUNNING, SUCCESS, PARTIAL, FAILED, SKIPPED}

\* The tools the workflows of definitions.py ask for.
ToolNames ==
  {"whoami", "get_todays_meetings", "get_inbox", "get_sent", "search_emails",
   "search_meetings", "find_colleague", "read_email", "get_calendar"}

\* Capability maps handed to set_tools, by their key sets: the empty map a
\* new registry holds, the seven capabilities without read_email and
\* get_calendar, and a map with every tool the workflows name.
EmptyMap == {}
CoreMap  == ToolNames \ {"read_email", "get_calendar"}
FullMap  == ToolNames
ToolMaps == {EmptyMap, CoreMap, FullMap}

\* What a tool hands back, as far as the workflows read it:
\*   doc   a JSON object (or dict) carrying the fields asked for
\*   empty a JSON object whose list (meetings/results) or name is missing
\*   error a JSON object carrying an "error" marker
\*   text  a str that json.loads rejects (call_tool returns it as is); it
\*         stands for every payload whose first reading by the workflow
\*         raises (no JSON object, or a field of another type)
Payloads == {"doc", "empty", "error", "text"}

\* Exception messages: str(e) of what a tool raises may be empty.
ToolMessages == {"boom", ""}

\* An outcome of one tool invocation, drawn by the environment.
Returns(p) == [raises |-> FALSE, payload |-> p, msg |-> None]
Raises(m)  == [raises |-> TRUE, payload |-> None, msg |-> m]

\* The payloads whose differences the caller can see, per tool.
PayloadsOf(tool) ==
  CASE tool = "find_colleague"      -> {"doc", "empty", "error", "text"}
    [] tool = "read_email"          -> {"doc", "error", "text"}
    [] tool = "get_todays_meetings" -> {"doc", "empty", "text"}
    [] tool = "get_calendar"        -> {"doc", "empty", "text"}
    [] tool = "search_meetings"     -> {"doc", "empty", "text"}
    [] OTHER                        -> {"doc", "text"}

Outcomes(tool) ==
  {Returns(p) : p \in PayloadsOf(tool)} \cup {Raises(m) : m \in ToolMessages}

\* In-flight exceptions.
NoExc == [kind |-> "none", msg |-> None]
Exc(k, m) == [kind |-> k, msg |-> m]

\* ToolCall (base.py:34-42), without duration and timestamp.
ToolCall(tool, result, error) ==
  [tool_name |-> tool, result |-> result, error |-> error]

\* ActionResult (base.py:55-65), without duration, execution id, timestamp.
ActionResult(name, status, output, error, calls) ==
  [action_name |-> name, status |-> status, output |-> output,
   error |-> error, tool_calls |-> calls]

NoResult == ActionResult(None, None, None, None, <<>>)

\* ----------------------------------------------------------- action types
\* The classes of definitions.py in the order the module registers them.
Definitions ==
  <<"DailySummaryAction", "EmailThreadAction", "MeetingPrepAction",
    "ColleagueLookupAction", "InboxTriageAction", "DailyBriefingAction">>

\* Action subclasses of a caller: one under a name of its own, one under
\* the name colleague_lookup.
CustomTypes == {"CustomAction", "CustomLookupAction"}

\* Classes register is called with once the definitions are loaded.
LateTypes == CustomTypes \cup {"ColleagueLookupAction"}

\* The class attributes name, description, tags.
NameOf(cls) ==
  CASE cls = "DailySummaryAction"    -> "daily_summary"
    [] cls = "EmailThreadAction"     -> "get_email_thread"
    [] cls = "MeetingPrepAction"     -> "meeting_prep"
    [] cls = "ColleagueLookupAction" -> "colleague_lookup"
    [] cls = "InboxTriageAction"     -> "inbox_triage"
    [] cls = "DailyBriefingAction"   -> "daily_briefing"
    [] cls = "CustomAction"          -> "custom"
    [] cls = "CustomLookupAction"    -> "colleague_lookup"

DescriptionOf(cls) ==
  CASE cls = "DailySummaryAction"    -> "Generate a daily summary of emails and meetings"
    [] cls = "EmailThreadAction"     -> "Get full email thread for a given email"
    [] cls = "MeetingPrepAction"     -> "Prepare background info for a meeting"
    [] cls = "ColleagueLookupAction" -> "Look up a colleague with recent interactions"
    [] cls = "InboxTriageAction"     -> "Triage unread inbox by priority"
    [] cls = "DailyBriefingAction"   -> "Generate printable meeting intelligence briefing for today"
    [] cls = "CustomAction"          -> "Base action"
    [] cls = "CustomLookupAction"    -> "Look up a colleague in the directory"

TagsOf(cls) ==
  CASE cls = "DailySummaryAction"    -> <<"email", "calendar", "summary">>
    [] cls = "EmailThreadAction"     -> <<"email", "search">>
    [] cls = "MeetingPrepAction"     -> <<"calendar", "email", "lookup">>
    [] cls = "ColleagueLookupAction" -> <<"lookup", "email", "calendar">>
    [] cls = "InboxTriageAction"     -> <<"email", "summary">>
    [] cls = "DailyBriefingAction"   -> <<"calendar", "email", "search", "prep", "briefing">>
    [] cls = "CustomAction"          -> <<>>
    [] cls = "CustomLookupAction"    -> <<"lookup", "email">>

Range(s) == {s[i] : i \in 1..Len(s)}

\* ------------------------------------------------------------ Python dict
Keys(d) == {d[i][1] : i \in 1..Len(d)}

\* d.get(k): the value under k, or None.
Get(d, k) ==
  IF k \in Keys(d) THEN d[CHOOSE i \in 1..Len(d) : d[i][1] = k][2] ELSE None

\* d[k] = v: an existing key keeps its position, a new key goes last.
SetItem(d, k, v) ==
  IF k \in Keys(d)
  THEN [i \in 1..Len(d) |-> IF d[i][1] = k THEN <<k, v>> ELSE d[i]]
  ELSE Append(d, <<k, v>>)

\* d.values(), in insertion order.
Values(d) == [i \in 1..Len(d) |-> d[i][2]]

\* ---------------------------------------------------------------- state
VARIABLES
  actions,   \* ActionRegistry._actions: dict name -> class
  tools,     \* ActionRegistry._tools: the capability map (its key set)
  registered,\* the classes register was called with, in call order
  phase,     \* "idle", "running" (inside run), "done" (execute has returned)
  inst,      \* the Action instance: class, _tools, _tool_calls
  pc,        \* where the instance's execute stands
  locals,    \* the local variables of execute
  exc,       \* the exception in flight inside run, or NoExc
  ret,       \* what execute returned
  ctx,       \* ActionContext.variables of the context passed (keys set)
  outcome,   \* what ActionRegistry.execute gave its caller
  listed,    \* what list_actions gave its caller
  found,     \* what find_by_tag gave its caller
  obs,       \* observations of the run, read only by the properties
  subject,   \* _extract_keywords: the subject given (a str: its characters)
  body,      \* _extract_keywords: the body given
  keywords,  \* _extract_keywords: the list returned
  meeting,   \* _find_alternative_contributors: the meeting given
  emails,    \* the corpus given (in _find_alternative_contributors: as far
             \* as the loop has read it)
  contributor_scores, \* _find_alternative_contributors: the dict of the loop
  alternatives,       \* _find_alternative_contributors: the list returned
  meetings,  \* _detect_conflicts: the meetings given
  conflicts, \* _detect_conflicts: the list returned
  stage,     \* where the helper under study stands: "none", "given",
             \* "returned", "raised"
  heap,      \* the list objects holding ToolCall records, by identity
  objects,   \* the Action instances callers hold: each names its
             \* _tool_calls list
  runs,      \* the calls of Action.run made so far: instance, records made
  results    \* the ActionResults callers were handed: each names its
             \* tool_calls list

\* The state of the registry and of the action it runs.
framework ==
  <<actions, tools, registered, phase, inst, pc, locals, exc, ret, ctx,
    outcome, listed, found, obs>>

\* The state of the briefing's helpers when called on their own.
helpers ==
  <<subject, body, keywords, meeting, emails, contributor_scores,
    alternatives, meetings, conflicts, stage>>

\* The objects of callers that keep instances and results, and run several
\* actions at a time.
callers == <<heap, objects, runs, results>>

vars == <<framework, helpers, callers>>

NoInst == [cls |-> None, tools |-> {}, tool_calls |-> <<>>]

NoLocals ==
  [me |-> None, today |-> None, inbox |-> None, sent |-> None,
   email |-> None, related |-> None, calendar |-> None, meetings |-> None,
   colleague |-> None, emails |-> None, organizer |-> None,
   search_result |-> None, has_organizer |-> FALSE, keywords |-> <<>>,
   next |-> 0, calls |-> 0]

NoOutcome == [kind |-> "none", result |-> NoResult, exc |-> NoExc]

NoCall ==
  [tool |-> None, outcome |-> Returns(None), before |-> <<>>, after |-> <<>>,
   exc |-> NoExc]

\* No meeting: the record of a meeting with every field missing.
NoMeeting == [subject |-> <<>>, body |-> <<>>, start |-> <<>>, end |-> <<>>,
              attendees |-> <<>>]

\* obs.call: the latest call_tool (its tool, what the tool did, the trace
\* before and after it, what it raised); obs.ok / failed / unknown: call_tool invocations of this run
\* whose tool returned / whose tool raised / whose name was not in the map;
\* obs.caught: what run's except clause caught; obs.given: the context as
\* passed to execute; obs.name: the name asked for.
NoObs ==
  [call |-> NoCall, ok |-> 0, failed |-> 0, unknown |-> 0, caught |-> NoExc,
   given |-> {}, name |-> None]

\* Contexts a caller passes: the keys whose value is set and truthy.
Contexts == {{}, {"email_id"}, {"meeting_id"}, {"colleague_name"}}

\* ------------------------------------------------------- Action (base.py)
\* __init__ called without the registry's tools: action_class().
NewAction_without_tools(cls, tool_registry) ==
  [cls |-> cls, tools |-> {}, tool_calls |-> <<>>]

\* Action.__init__
NewAction(cls, tool_registry) ==
  [cls |-> cls, tools |-> tool_registry, tool_calls |-> <<>>]

\* call_tool with the record created and appended before the name is looked
\* up in the map.
call_tool_record_first(self, tool_name, o) ==
  IF tool_name \notin self.tools
  THEN [self |-> [self EXCEPT !.tool_calls =
                    Append(@, ToolCall(tool_name, None, None))],
        exc |-> Exc("UnknownTool", "Unknown tool: " \o tool_name),
        value |-> None]
  ELSE IF o.raises
  THEN [self |-> [self EXCEPT !.tool_calls =
                    Append(@, ToolCall(tool_name, None, o.msg))],
        exc |-> Exc("ToolError", o.msg),
        value |-> None]
  ELSE [self |-> [self EXCEPT !.tool_calls =
                    Append(@, ToolCall(tool_name, o.payload, None))],
        exc |-> NoExc,
        value |-> o.payload]

\* call_tool with the append after the call instead of in a finally block.
call_tool_no_finally(self, tool_name, o) ==
  IF tool_name \notin self.tools
  THEN [self |-> self,
        exc |-> Exc("UnknownTool", "Unknown tool: " \o tool_name),
        value |-> None]
  ELSE IF o.raises
  THEN [self |-> self, exc |-> Exc("ToolError", o.msg), value |-> None]
  ELSE [self |-> [self EXCEPT !.tool_calls =
                    Append(@, ToolCall(tool_name, o.payload, None))],
        exc |-> NoExc,
        value |-> o.payload]

\* call_tool without the json.loads of a str result: the caller gets the
\* raw text.
call_tool_no_parse(self, tool_name, o) ==
  IF tool_name \notin self.tools
  THEN [self |-> self,
        exc |-> Exc("UnknownTool", "Unknown tool: " \o tool_name),
        value |-> None]
  ELSE IF o.raises
  THEN [self |-> [self EXCEPT !.tool_calls =
                    Append(@, ToolCall(tool_name, None, o.msg))],
        exc |-> Exc("ToolError", o.msg),
        value |-> None]
  ELSE [self |-> [self EXCEPT !.tool_calls =
                    Append(@, ToolCall(tool_name, o.payload, None))],
        exc |-> NoExc,
        value |-> "text"]

\* Action.call_tool: what becomes of the instance, the exception raised
\* (or NoExc) and the value returned, for a tool whose outcome is o.
call_tool(self, tool_name, o) ==
  IF tool_name \notin self.tools
  THEN [self |-> self,
        exc |-> Exc("UnknownTool", "Unknown tool: " \o tool_name),
        value |-> None]
  ELSE IF o.raises
  THEN [self |-> [self EXCEPT !.tool_calls =
                    Append(@, ToolCall(tool_name, None, o.msg))],
        exc |-> Exc("ToolError", o.msg),
        value |-> None]
  ELSE [self |-> [self EXCEPT !.tool_calls =
                    Append(@, ToolCall(tool_name, o.payload, None))],
        exc |-> NoExc,
        value |-> o.payload]

\* Action.complete
complete(self, output, status) ==
  ActionResult(NameOf(self.cls), status, output, None, self.tool_calls)

\* fail without tool_calls=..., the result keeping the default empty list.
fail_without_trace(self, error) ==
  ActionResult(NameOf(self.cls), FAILED, None, error, <<>>)

\* Action.fail
fail(self, error) ==
  ActionResult(NameOf(self.cls), FAILED, None, error, self.tool_calls)

\* Action.run, first half: a new trace.
run_enter(self) == [self EXCEPT !.tool_calls = <<>>]

\* What a call hands its caller: a value returned or an exception raised.
Returned(result) == [kind |-> "result", result |-> result, exc |-> NoExc]
Raised(e) == [kind |-> "raised", result |-> NoResult, exc |-> e]

\* run with `except ValueError` in place of `except Exception`.
run_exit_value_error_only(self, result, e) ==
  IF e.kind = "UnknownTool" THEN Returned(fail(self, e.msg))
  ELSE IF e # NoExc THEN Raised(e)
  ELSE IF result = NoResult
       THEN Raised(Exc("Logic", "'NoneType' object has no attribute 'status'"))
       ELSE Returned(result)

\* Action.run, second half: the result of execute, or the failure made of
\* the exception caught. Reading result.status of something that is no
\* ActionResult raises inside the try block.
run_exit(self, result, e) ==
  IF e # NoExc THEN Returned(fail(self, e.msg))
  ELSE IF result = NoResult
       THEN Returned(fail(self, "'NoneType' object has no attribute 'status'"))
       ELSE Returned(result)

\* ------------------------------------------------- ActionRegistry (base.py)
\* register that keeps the class a name already has (setdefault).
register_first_wins(acts, action_class) ==
  IF NameOf(action_class) \in Keys(acts)
  THEN acts
  ELSE Append(acts, <<NameOf(action_class), action_class>>)

\* register that drops the old entry of the name and adds the new one last.
register_moves_last(acts, action_class) ==
  Append(SelectSeq(acts, LAMBDA e : e[1] # NameOf(action_class)),
         <<NameOf(action_class), action_class>>)

\* ActionRegistry.register
register(acts, action_class) == SetItem(acts, NameOf(action_class), action_class)

list_actions(acts) ==
  [i \in 1..Len(acts) |->
     [name |-> NameOf(Values(acts)[i]),
      description |-> DescriptionOf(Values(acts)[i]),
      tags |-> TagsOf(Values(acts)[i])]]

find_by_tag(acts, tag) ==
  SelectSeq(Values(acts), LAMBDA ac : tag \in Range(TagsOf(ac)))

TypeOK ==
  /\ phase \in {"idle", "running", "done"}
  /\ tools \in ToolMaps
  /\ Len(registered) <= Len(Definitions) + MaxRegs

\* The registry as the module creates it, nothing run yet.
InitFramework ==
  /\ actions = <<>>
  /\ tools = EmptyMap
  /\ registered = <<>>
  /\ phase = "idle"
  /\ inst = NoInst
  /\ pc = "none"
  /\ locals = NoLocals
  /\ exc = NoExc
  /\ ret = NoResult
  /\ ctx = {}
  /\ outcome = NoOutcome
  /\ listed = <<>>
  /\ found = <<>>
  /\ obs = NoObs

\* No helper called on its own.
NoHelpers ==
  /\ subject = <<>>
  /\ body = <<>>
  /\ keywords = <<>>
  /\ meeting = NoMeeting
  /\ emails = <<>>
  /\ contributor_scores = <<>>
  /\ alternatives = <<>>
  /\ meetings = <<>>
  /\ conflicts = <<>>
  /\ stage = "none"

\* No caller holding an instance or a result.
NoCallers ==
  /\ heap = <<>>
  /\ objects = <<>>
  /\ runs = <<>>
  /\ results = <<>>

Init == InitFramework /\ NoHelpers /\ NoCallers

\* registry.register(action_class): the decorators of definitions.py run in
\* file order while the module loads; later callers register what they like.
Register(action_class) ==
  /\ phase = "idle"
  /\ IF Len(registered) < Len(Definitions)
     THEN action_class = Definitions[Len(registered) + 1]
     ELSE /\ action_class \in LateTypes
          /\ Len(registered) < Len(Definitions) + MaxRegs
  /\ actions' = register(actions, action_class)
  /\ registered' = Append(registered, action_class)
  /\ UNCHANGED <<tools, phase, inst, pc, locals, exc, ret, ctx, outcome, listed, found, obs, helpers, callers>>

\* registry.set_tools(tools)
SetTools(m) ==
  /\ phase = "idle"
  /\ tools' = m
  /\ UNCHANGED <<actions, registered, phase, inst, pc, locals, exc, ret, ctx,
                 outcome, listed, found, obs, helpers, callers>>

\* ---------------------------------------------------- steps of execute
\* One step of an execute runs its code up to and including the next
\* call_tool, or up to its return or raise.

Observe(tool, o, r) ==
  [obs EXCEPT !.call = [tool |-> tool,
                        outcome |-> IF tool \in inst.tools THEN o ELSE Returns(None),
                        before |-> inst.tool_calls,
                        after |-> r.self.tool_calls,
                        exc |-> r.exc],
              !.ok = IF tool \in inst.tools /\ ~o.raises THEN @ + 1 ELSE @,
              !.failed = IF tool \in inst.tools /\ o.raises THEN @ + 1 ELSE @,
              !.unknown = IF tool \notin inst.tools THEN @ + 1 ELSE @]

\* var = self.call_tool(tool, ...), the context holding newctx by then.
Invoke(tool, var, next, newctx) ==
  \E o \in Outcomes(tool) :
    LET r == call_tool(inst, tool, o) IN
    /\ inst' = r.self
    /\ exc' = r.exc
    /\ obs' = Observe(tool, o, r)
    /\ ctx' = newctx
    /\ IF r.exc = NoExc
       THEN pc' = next /\ locals' = [locals EXCEPT ![var] = r.value]
       ELSE pc' = "raised" /\ locals' = locals
    /\ UNCHANGED ret

\* An exception of the workflow's own code.
Throw(msg, newctx) ==
  /\ exc' = Exc("Logic", msg)
  /\ pc' = "raised"
  /\ ctx' = newctx
  /\ UNCHANGED <<inst, locals, ret, obs>>

\* return result
Return(result, newctx) ==
  /\ ret' = result
  /\ pc' = "returned"
  /\ ctx' = newctx
  /\ UNCHANGED <<inst, locals, exc, obs>>

\* x.get(...) on a str payload
NoGet == "'str' object has no attribute 'get'"

Frame == UNCHANGED <<actions, tools, registered, phase, outcome, listed, found, helpers, callers>>

Running(cls) == phase = "running" /\ inst.cls = cls /\ exc = NoExc

\* ColleagueLookupAction.execute
ColleagueLookupAction_execute ==
  /\ Running("ColleagueLookupAction")
  /\ Frame
  /\ \/ /\ pc = "start"
        /\ IF "colleague_name" \notin ctx
           THEN Return(fail(inst, "colleague_name required in context"), ctx)
           ELSE Invoke("find_colleague", "colleague", "found", ctx)
     \/ /\ pc = "found"
        /\ IF locals.colleague = "text"
           THEN Throw(NoGet, ctx)
           ELSE IF locals.colleague \in {"error", "empty"}
           THEN Return(fail(inst, "Colleague not found: name"), ctx)
           ELSE Invoke("search_emails", "emails", "emails", ctx \cup {"colleague"})
     \/ /\ pc = "emails"
        /\ Invoke("search_meetings", "meetings", "meetings", ctx)
     \/ /\ pc = "meetings"
        /\ IF locals.emails = "text" \/ locals.meetings = "text"
           THEN Throw(NoGet, ctx)
           ELSE Return(complete(inst, "output", SUCCESS), ctx)

\* DailySummaryAction.execute
DailySummaryAction_execute ==
  /\ Running("DailySummaryAction")
  /\ Frame
  /\ \/ /\ pc = "start"
        /\ Invoke("whoami", "me", "me", ctx)
     \/ /\ pc = "me"
        /\ Invoke("get_todays_meetings", "meetings", "meetings", ctx \cup {"user"})
     \/ /\ pc = "meetings"
        /\ Invoke("get_inbox", "inbox", "inbox", ctx \cup {"meetings"})
     \/ /\ pc = "inbox"
        /\ IF "text" \in {locals.me, locals.meetings, locals.inbox}
           THEN Throw(NoGet, ctx \cup {"inbox"})
           ELSE Return(complete(inst, "output", SUCCESS), ctx \cup {"inbox"})

\* EmailThreadAction.execute
EmailThreadAction_execute ==
  /\ Running("EmailThreadAction")
  /\ Frame
  /\ \/ /\ pc = "start"
        /\ IF "email_id" \notin ctx
           THEN Return(fail(inst, "email_id required in context"), ctx)
           ELSE Invoke("read_email", "email", "email", ctx)
     \/ /\ pc = "email"
        /\ IF locals.email = "text"
           THEN Throw(NoGet, ctx)
           ELSE IF locals.email = "error"
           THEN Return(fail(inst, "Email not found: email_id"), ctx)
           ELSE Invoke("search_emails", "related", "related", ctx \cup {"original_email"})
     \/ /\ pc = "related"
        /\ IF locals.related = "text"
           THEN Throw(NoGet, ctx)
           ELSE Return(complete(inst, "output", SUCCESS), ctx)

\* MeetingPrepAction.execute from context.set("meeting", meeting) to the
\* search for related emails; the meeting found names an organizer or not.
MeetingPrep_search ==
  \E org \in BOOLEAN :
    \E o \in Outcomes("search_emails") :
      LET r == call_tool(inst, "search_emails", o) IN
      /\ inst' = r.self
      /\ exc' = r.exc
      /\ obs' = Observe("search_emails", o, r)
      /\ ctx' = ctx \cup {"meeting"}
      /\ IF r.exc = NoExc
         THEN /\ pc' = "related"
              /\ locals' = [locals EXCEPT !.related = r.value, !.has_organizer = org]
         ELSE /\ pc' = "raised"
              /\ locals' = locals
      /\ UNCHANGED ret

\* MeetingPrepAction.execute
MeetingPrepAction_execute ==
  /\ Running("MeetingPrepAction")
  /\ Frame
  /\ \/ /\ pc = "start"
        /\ IF "meeting_id" \notin ctx
           THEN Invoke("get_todays_meetings", "today", "today", ctx)
           ELSE Invoke("search_meetings", "meetings", "meetings", ctx)
     \/ /\ pc = "today"
        /\ IF locals.today = "text"
           THEN Throw(NoGet, ctx)
           ELSE IF locals.today = "doc"
           THEN MeetingPrep_search
           ELSE Invoke("get_calendar", "calendar", "calendar", ctx)
     \/ /\ pc = "calendar"
        /\ IF locals.calendar = "text"
           THEN Throw(NoGet, ctx)
           ELSE IF locals.calendar = "doc"
           THEN MeetingPrep_search
           ELSE Return(fail(inst, "No upcoming meetings found"), ctx)
     \/ /\ pc = "meetings"
        /\ IF locals.meetings = "text"
           THEN Throw(NoGet, ctx)
           ELSE IF locals.meetings = "empty"
           THEN Return(fail(inst, "Meeting not found: meeting_id"), ctx)
           ELSE MeetingPrep_search
     \/ /\ pc = "related"
        /\ IF locals.has_organizer
           THEN Invoke("find_colleague", "organizer", "organizer", ctx)
           ELSE IF locals.related = "text"
           THEN Throw(NoGet, ctx)
           ELSE Return(complete(inst, "output", SUCCESS), ctx)
     \/ /\ pc = "organizer"
        /\ IF locals.related = "text"
           THEN Throw(NoGet, ctx)
           ELSE Return(complete(inst, "output", SUCCESS), ctx)

\* InboxTriageAction.execute
InboxTriageAction_execute ==
  /\ Running("InboxTriageAction")
  /\ Frame
  /\ \/ /\ pc = "start"
        /\ Invoke("whoami", "me", "me", ctx)
     \/ /\ pc = "me"
        /\ IF locals.me = "text"
           THEN Throw(NoGet, ctx)
           ELSE Invoke("get_inbox", "inbox", "inbox", ctx)
     \/ /\ pc = "inbox"
        /\ IF locals.inbox = "text"
           THEN Throw(NoGet, ctx)
           ELSE Return(complete(inst, "output", SUCCESS), ctx)

\* The meetings of today's payload, as far as the briefing's tool calls
\* depend on them: whether _extract_keywords finds a keyword in each.
MeetingLists ==
  UNION {[1..n -> BOOLEAN] : n \in 1..MaxMeetings}

\* The first meeting from position i on that has keywords, or 0.
NextWithKeywords(kws, i) ==
  IF \E j \in i..Len(kws) : kws[j]
  THEN CHOOSE j \in i..Len(kws) : kws[j] /\ \A k \in i..(j - 1) : ~kws[k]
  ELSE 0

\* DailyBriefingAction.execute from meeting i of the loop on: the search of
\* _process_meeting for the next meeting with keywords, or, the loop done,
\* conflict detection and the output.
DailyBriefing_process(i, newctx) ==
  LET j == NextWithKeywords(locals.keywords, i) IN
  IF j # 0
  THEN \E o \in Outcomes("search_emails") :
         LET r == call_tool(inst, "search_emails", o) IN
         /\ inst' = r.self
         /\ exc' = r.exc
         /\ obs' = Observe("search_emails", o, r)
         /\ ctx' = newctx
         /\ IF r.exc = NoExc
            THEN /\ pc' = "searched"
                 /\ locals' = [locals EXCEPT !.search_result = r.value, !.next = j + 1]
            ELSE /\ pc' = "raised"
                 /\ locals' = locals
         /\ UNCHANGED ret
  ELSE IF locals.me = "text"
  THEN Throw(NoGet, newctx)
  ELSE Return(complete(inst, "briefing", SUCCESS), newctx)

\* DailyBriefingAction.execute
DailyBriefingAction_execute ==
  /\ Running("DailyBriefingAction")
  /\ Frame
  /\ \/ /\ pc = "start"
        /\ Invoke("whoami", "me", "me", ctx)
     \/ /\ pc = "me"
        /\ Invoke("get_todays_meetings", "today", "today", ctx \cup {"user"})
     \/ /\ pc = "today"
        /\ locals.today = "text"
        /\ Throw(NoGet, ctx)
     \/ /\ pc = "today"
        /\ locals.today = "empty"
        /\ IF locals.me = "text"
           THEN Throw(NoGet, ctx)
           ELSE Return(complete(inst, "no meetings", SUCCESS), ctx)
     \/ /\ pc = "today"
        /\ locals.today = "doc"
        /\ \E kws \in MeetingLists, o \in Outcomes("get_inbox") :
             LET r == call_tool(inst, "get_inbox", o) IN
             /\ inst' = r.self
             /\ exc' = r.exc
             /\ obs' = Observe("get_inbox", o, r)
             /\ ctx' = ctx \cup {"meetings_count"}
             /\ IF r.exc = NoExc
                THEN /\ pc' = "inbox"
                     /\ locals' = [locals EXCEPT !.inbox = r.value, !.keywords = kws]
                ELSE /\ pc' = "raised"
                     /\ locals' = locals
             /\ UNCHANGED ret
     \/ /\ pc = "inbox"
        /\ Invoke("get_sent", "sent", "sent", ctx)
     \/ /\ pc = "sent"
        /\ IF "text" \in {locals.inbox, locals.sent}
           THEN Throw(NoGet, ctx)
           ELSE DailyBriefing_process(1, ctx \cup {"email_pool_size"})
     \/ /\ pc = "searched"
        /\ IF locals.search_result = "text"
           THEN Throw(NoGet, ctx)
           ELSE DailyBriefing_process(locals.next, ctx)

\* What the execute of a caller's Action subclass may do (Action.execute is
\* abstract): call tools, raise, return complete(...) under any status,
\* return fail(...), or return something that is no ActionResult.
CustomTools == {"whoami", "no_such_tool"}
CustomMessages == {"bug", ""}

CustomAction_execute ==
  /\ phase = "running" /\ inst.cls \in CustomTypes /\ exc = NoExc
  /\ pc = "start"
  /\ Frame
  /\ \/ /\ locals.calls < MaxCalls
        /\ \E t \in CustomTools, o \in {Returns("doc")} \cup {Raises(m) : m \in ToolMessages} :
             LET r == call_tool(inst, t, o) IN
             /\ inst' = r.self
             /\ exc' = r.exc
             /\ obs' = Observe(t, o, r)
             /\ pc' = IF r.exc = NoExc THEN "start" ELSE "raised"
             /\ locals' = [locals EXCEPT !.calls = @ + 1]
             /\ UNCHANGED <<ret, ctx>>
     \/ \E m \in CustomMessages : Throw(m, ctx)
     \/ \E st \in ActionStatus, out \in {None, "output"} :
          Return(complete(inst, out, st), ctx)
     \/ \E m \in CustomMessages : Return(fail(inst, m), ctx)
     \/ Return(NoResult, ctx)

\* try/except around a call_tool in the execute of a caller's subclass:
\* the error of the call is dropped and execute goes on.
CustomAction_except ==
  /\ phase = "running" /\ inst.cls \in CustomTypes
  /\ pc = "raised"
  /\ exc.kind \in {"ToolError", "UnknownTool"}
  /\ pc' = "start"
  /\ exc' = NoExc
  /\ Frame
  /\ UNCHANGED <<inst, locals, ret, ctx, obs>>

\* execute that takes the class out of the registry as it runs it (pop in
\* place of get).
ActionRegistry_execute_pop(action_name, context) ==
  /\ phase = "idle"
  /\ ctx' = context
  /\ obs' = [NoObs EXCEPT !.given = context, !.name = action_name]
  /\ IF Get(actions, action_name) = None
     THEN /\ outcome' = Raised(Exc("UnknownAction", "Unknown action: " \o action_name))
          /\ phase' = "done"
          /\ UNCHANGED <<inst, pc>>
     ELSE /\ inst' = run_enter(NewAction(Get(actions, action_name), tools))
          /\ pc' = "start"
          /\ phase' = "running"
          /\ UNCHANGED outcome
  /\ actions' = SelectSeq(actions, LAMBDA e : e[1] # action_name)
  /\ UNCHANGED <<tools, registered, locals, exc, ret, listed, found, helpers, callers>>

\* ActionRegistry.execute(action_name, context), up to the first step of
\* the instance's execute; an unknown name raises.
ActionRegistry_execute(action_name, context) ==
  /\ phase = "idle"
  /\ ctx' = context
  /\ obs' = [NoObs EXCEPT !.given = context, !.name = action_name]
  /\ IF Get(actions, action_name) = None
     THEN /\ outcome' = Raised(Exc("UnknownAction", "Unknown action: " \o action_name))
          /\ phase' = "done"
          /\ UNCHANGED <<inst, pc>>
     ELSE /\ inst' = run_enter(NewAction(Get(actions, action_name), tools))
          /\ pc' = "start"
          /\ phase' = "running"
          /\ UNCHANGED outcome
  /\ UNCHANGED <<actions, tools, registered, locals, exc, ret, listed, found, helpers, callers>>

\* Action.run once execute has returned or raised; ActionRegistry.execute
\* returns what run returns.
Run_exit ==
  /\ phase = "running"
  /\ pc \in {"returned", "raised"}
  /\ outcome' = run_exit(inst, ret, exc)
  /\ obs' = [obs EXCEPT !.caught = exc]
  /\ phase' = "done"
  /\ UNCHANGED <<actions, tools, registered, inst, pc, locals, exc, ret, ctx, listed, found, helpers, callers>>

\* registry.list_actions()
ListActions ==
  /\ phase = "idle"
  /\ listed' = list_actions(actions)
  /\ outcome' = [NoOutcome EXCEPT !.kind = "listed"]
  /\ phase' = "done"
  /\ UNCHANGED <<actions, tools, registered, inst, pc, locals, exc, ret, ctx, found, obs, helpers, callers>>

Tags == UNION {Range(TagsOf(c)) : c \in Range(Definitions) \cup CustomTypes} \cup {"no_such_tag"}

\* registry.find_by_tag(tag)
FindByTag(tag) ==
  /\ phase = "idle"
  /\ found' = find_by_tag(actions, tag)
  /\ outcome' = [NoOutcome EXCEPT !.kind = "found"]
  /\ obs' = [NoObs EXCEPT !.name = tag]
  /\ phase' = "done"
  /\ UNCHANGED <<actions, tools, registered, inst, pc, locals, exc, ret, ctx, listed, helpers, callers>>

\* The caller drops the result, the instance and the context.
Forget ==
  /\ phase = "done"
  /\ phase' = "idle"
  /\ inst' = NoInst
  /\ pc' = "none"
  /\ locals' = NoLocals
  /\ exc' = NoExc
  /\ ret' = NoResult
  /\ ctx' = {}
  /\ outcome' = NoOutcome
  /\ obs' = NoObs
  /\ listed' = <<>>
  /\ found' = <<>>
  /\ UNCHANGED <<actions, tools, registered, helpers, callers>>

ActionNames == {NameOf(c) : c \in Range(Definitions) \cup CustomTypes} \cup {"no_such_action"}

Next ==
  \/ \E c \in Range(Definitions) \cup LateTypes : Register(c)
  \/ \E m \in ToolMaps : SetTools(m)
  \/ \E n \in ActionNames, c \in Contexts : ActionRegistry_execute(n, c)
  \/ DailySummaryAction_execute
  \/ EmailThreadAction_execute
  \/ MeetingPrepAction_execute
  \/ ColleagueLookupAction_execute
  \/ InboxTriageAction_execute
  \/ DailyBriefingAction_execute
  \/ CustomAction_execute
  \/ CustomAction_except
  \/ Run_exit
  \/ ListActions
  \/ \E t \in Tags : FindByTag(t)
  \/ Forget

Spec == Init /\ [][Next]_vars

\* ------------------------------------------------------------ properties
\* A run of an action instance has ended.
RunEnded == phase = "done" /\ inst # NoInst

\* C1: run never raises. Whatever execute did (returned, raised out of a
\* tool, out of its own code, or on an unknown tool name), the caller of run
\* holds an ActionResult; when execute raised, the result is Failed, its
\* error is the message of the exception and its trace is the trace of the
\* instance at the failure.
C1_RunNeverRaises ==
  RunEnded =>
    /\ outcome.kind = "result"
    /\ outcome.result.action_name = NameOf(inst.cls)
    /\ outcome.result.status \in ActionStatus
    /\ obs.caught # NoExc =>
         /\ outcome.result.status = FAILED
         /\ outcome.result.error = obs.caught.msg
         /\ outcome.result.tool_calls = inst.tool_calls

\* A tool raised after two calls had gone through, and run returned Failed.
C1_Witness ==
  /\ RunEnded
  /\ obs.caught.kind = "ToolError"
  /\ obs.ok >= 2
  /\ outcome.kind = "result"
  /\ outcome.result.status = FAILED

\* C2: a call_tool whose tool name the bound capability map lacks raises the
\* unknown-tool error and leaves the trace as it was, whatever calls came
\* before it in the run.
C2_UnknownToolLeavesTrace ==
  (obs.call.tool # None /\ obs.call.tool \notin inst.tools) =>
    /\ obs.call.exc.kind = "UnknownTool"
    /\ obs.call.after = obs.call.before

\* An unknown tool was asked for after an earlier call had been recorded.
C2_Witness ==
  /\ obs.call.exc.kind = "UnknownTool"
  /\ Len(obs.call.before) >= 1
  /\ inst.tool_calls = obs.call.before

\* C3: when a tool of the map raises, call_tool appends one record for the
\* call at the end of the trace, with the error message and no result, and
\* raises the tool's error to its caller; a call that succeeds appends one
\* record too, with the result and no error.
C3_FailingCallRecorded ==
  (obs.call.tool # None /\ obs.call.tool \in inst.tools) =>
    IF obs.call.outcome.raises
    THEN /\ obs.call.after =
              Append(obs.call.before,
                     ToolCall(obs.call.tool, None, obs.call.outcome.msg))
         /\ obs.call.exc = Exc("ToolError", obs.call.outcome.msg)
    ELSE /\ obs.call.after =
              Append(obs.call.before,
                     ToolCall(obs.call.tool, obs.call.outcome.payload, None))
         /\ obs.call.exc = NoExc

\* A tool raised after an earlier call had been recorded; the exception is
\* in flight in execute.
C3_Witness ==
  /\ phase = "running"
  /\ pc = "raised"
  /\ exc.kind = "ToolError"
  /\ obs.call.outcome.raises
  /\ Len(obs.call.before) >= 1
  /\ Len(inst.tool_calls) = Len(obs.call.before) + 1

\* Every call_tool of the run reached its tool and the tool returned.
AllCallsSucceeded == obs.failed = 0 /\ obs.unknown = 0

\* The messages of the failures a workflow decides on itself.
DomainFailures(cls) ==
  CASE cls = "EmailThreadAction" ->
         {"email_id required in context", "Email not found: email_id"}
    [] cls = "MeetingPrepAction" ->
         {"No upcoming meetings found", "Meeting not found: meeting_id"}
    [] cls = "ColleagueLookupAction" ->
         {"colleague_name required in context", "Colleague not found: name"}
    [] OTHER -> {}

\* Some tool of the run returned text that is no JSON object.
TextReturned ==
  \E i \in 1..Len(inst.tool_calls) : inst.tool_calls[i].result = "text"

C5_Original ==
  (RunEnded /\ obs.caught # NoExc /\ outcome.kind = "result") =>
    /\ outcome.result.status = FAILED
    /\ Len(outcome.result.tool_calls) = obs.ok

\* C5, amended: the Failed result of a run whose execute raised has one
\* trace entry per call that reached its tool: the N that succeeded and one
\* for each call whose tool raised. For the workflows of definitions.py,
\* which catch nothing, that is N entries when the error is an unknown tool
\* name or the workflow's own, and N + 1 when it is a tool's, the last entry
\* being the failing call.
C5_TraceCountsCallsMade ==
  (RunEnded /\ obs.caught # NoExc) =>
    /\ outcome.kind = "result"
    /\ outcome.result.status = FAILED
    /\ Len(outcome.result.tool_calls) = obs.ok + obs.failed
    /\ obs.caught.kind = "ToolError" =>
         /\ obs.failed >= 1
         /\ outcome.result.tool_calls[Len(outcome.result.tool_calls)].error
              = obs.caught.msg
    /\ inst.cls \in Range(Definitions) =>
         Len(outcome.result.tool_calls) =
           IF obs.caught.kind = "ToolError" THEN obs.ok + 1 ELSE obs.ok

\* A tool raised after two successful calls and the Failed result has three
\* trace entries.
C5_Witness ==
  /\ RunEnded
  /\ obs.caught.kind = "ToolError"
  /\ obs.ok = 2
  /\ outcome.result.status = FAILED
  /\ Len(outcome.result.tool_calls) = 3

\* C6 as claimed: every ActionResult built by run, complete or fail has
\* error present and output absent when Failed, and error absent when
\* Success.
C6_ResultInvariant ==
  LET Sound(r) ==
        /\ r.status = FAILED => r.error # None /\ r.output = None
        /\ r.status = SUCCESS => r.error = None
  IN /\ (RunEnded /\ outcome.kind = "result") => Sound(outcome.result)
     /\ (phase = "running" /\ pc = "returned" /\ ret # NoResult) => Sound(ret)

\* C7 as claimed: a Failed result returned by the run of a workflow carries
\* a non-empty error message.
C7_FailedHasMessage ==
  (RunEnded /\ inst.cls \in Range(Definitions) /\ outcome.kind = "result"
     /\ outcome.result.status = FAILED)
    => outcome.result.error \notin {None, ""}

\* The names register was called with, and for a name the position of its
\* latest registration in the calls made.
RegisteredNames == {NameOf(registered[i]) : i \in 1..Len(registered)}

LastIndex(n) ==
  CHOOSE i \in 1..Len(registered) :
    /\ NameOf(registered[i]) = n
    /\ \A j \in (i + 1)..Len(registered) : NameOf(registered[j]) # n

LatestClass(n) == registered[LastIndex(n)]

\* The registered names in the order of their first registration.
NamesByFirst ==
  LET seen[k \in 0..Len(registered)] ==
        IF k = 0 THEN <<>>
        ELSE IF NameOf(registered[k]) \in Range(seen[k - 1])
             THEN seen[k - 1]
             ELSE Append(seen[k - 1], NameOf(registered[k]))
  IN seen[Len(registered)]

Triple(cls) ==
  [name |-> NameOf(cls), description |-> DescriptionOf(cls), tags |-> TagsOf(cls)]

\* ActionRegistry.execute was called and has handed back a result or an
\* error.
ExecuteEnded == phase = "done" /\ outcome.kind \in {"result", "raised"}

\* C8: execute(name, context) with a name that is not registered raises the
\* unknown-action error, no instance is constructed, no tool is called and
\* the context is as it was passed; with a registered name it constructs an
\* instance of the class registered, with an empty trace and bound to the
\* capability map the registry holds at the call, and hands back what that
\* instance's run returns.
C8_ExecuteDispatch ==
  /\ ExecuteEnded =>
       IF obs.name \notin Keys(actions)
       THEN /\ outcome.kind = "raised"
            /\ outcome.exc.kind = "UnknownAction"
            /\ inst = NoInst
            /\ obs.call = NoCall
            /\ ctx = obs.given
       ELSE /\ outcome.kind = "result"
            /\ inst.cls = Get(actions, obs.name)
            /\ inst.tools = tools
            /\ outcome.result.action_name = obs.name
            /\ outcome.result.tool_calls = inst.tool_calls
  /\ phase = "running" =>
       /\ obs.name \in Keys(actions)
       /\ inst.cls = Get(actions, obs.name)
       /\ inst.tools = tools
       /\ pc = "start" /\ obs.call = NoCall => inst.tool_calls = <<>>

\* A run of a registered action has ended with tool calls made on a map set
\* by set_tools.
C8_Witness ==
  /\ ExecuteEnded
  /\ outcome.kind = "result"
  /\ inst.tools = FullMap
  /\ Len(outcome.result.tool_calls) >= 2

\* An unknown name was refused while the registry held every definition.
C8_WitnessUnknown ==
  /\ ExecuteEnded
  /\ outcome.kind = "raised"
  /\ Len(actions) >= Len(Definitions)

\* C9: after any sequence of register calls (the registry at rest, between
\* calls of its methods) the registry holds one class per name registered, the one of the latest register call under that
\* name; list_actions shows one entry per name, with that class's
\* description and tags; execute runs an instance of that class.
C9_LastRegistrationWins ==
  /\ phase = "idle" =>
       /\ Cardinality(Keys(actions)) = Len(actions)
       /\ Keys(actions) = RegisteredNames
       /\ \A i \in 1..Len(actions) : actions[i][2] = LatestClass(actions[i][1])
  /\ outcome.kind = "listed" =>
       /\ Len(listed) = Cardinality(RegisteredNames)
       /\ \A n \in RegisteredNames :
            \E i \in 1..Len(listed) :
              /\ listed[i] = Triple(LatestClass(n))
              /\ \A j \in 1..Len(listed) : listed[j].name = n => j = i
  /\ inst # NoInst => inst.cls = LatestClass(obs.name)

\* list_actions after colleague_lookup was registered a second time, with
\* another class: the entry shown is the second class's.
C9_Witness ==
  /\ outcome.kind = "listed"
  /\ Len(registered) > Len(Definitions)
  /\ registered[Len(registered)] = "CustomLookupAction"
  /\ \E i \in 1..Len(listed) : listed[i] = Triple("CustomLookupAction")
  /\ \A i \in 1..Len(listed) : listed[i] # Triple("ColleagueLookupAction")

\* The classes the registry holds, in the order list_actions shows them.
Held == Values(actions)

\* Class a was registered, at some register call, before class b was.
RegisteredBefore(a, b) ==
  \E i, j \in 1..Len(registered) :
    i < j /\ registered[i] = a /\ registered[j] = b

\* C10 as claimed: list_actions and find_by_tag order the classes by when
\* each class shown was registered, earliest first.
C10_Original ==
  /\ outcome.kind = "listed" =>
       /\ Len(listed) = Len(Held)
       /\ \A i, j \in 1..Len(listed) :
            i < j => /\ listed[i] = Triple(Held[i])
                     /\ RegisteredBefore(Held[i], Held[j])
  /\ outcome.kind = "found" =>
       \A i, j \in 1..Len(found) : i < j => RegisteredBefore(found[i], found[j])

\* C10, amended: list_actions returns the triples of the classes currently
\* registered, one per name, ordered by when each name was first
\* registered (a name registered again keeps its place and shows its latest
\* class); find_by_tag(tag) returns exactly the current classes whose tags
\* contain tag, in that same order.
C10_OrderOfFirstRegistration ==
  LET current == [i \in 1..Len(NamesByFirst) |-> LatestClass(NamesByFirst[i])] IN
  /\ outcome.kind = "listed" =>
       listed = [i \in 1..Len(current) |-> Triple(current[i])]
  /\ outcome.kind = "found" =>
       found = SelectSeq(current, LAMBDA c : obs.name \in Range(TagsOf(c)))

\* find_by_tag for a tag of several classes, among them a class registered
\* under an old name after the other names were registered.
C10_Witness ==
  /\ outcome.kind = "found"
  /\ Len(found) >= 3
  /\ \E i \in 1..Len(found) :
       /\ found[i] = "CustomLookupAction"
       /\ i < Len(found)
       /\ RegisteredBefore(found[i + 1], found[i])
       /\ ~RegisteredBefore(found[i], found[i + 1])

\* C11: ActionRegistry.execute, list_actions and find_by_tag leave the
\* registry as it was: from the step that enters one of them to the step
\* that hands its result back (every step that does not end with the
\* registry at rest), the name-to-class map and the capability map are the
\* same after the step as before it, whether the executed action succeeds,
\* fails or the name is unknown.
C11_RegistryFrame ==
  [][phase' # "idle" => actions' = actions /\ tools' = tools]_vars

\* An executed action has failed after a tool call, the registry holding
\* every definition and a non-empty capability map.
C11_Witness ==
  /\ ExecuteEnded
  /\ outcome.kind = "result"
  /\ outcome.result.status = FAILED
  /\ Len(outcome.result.tool_calls) >= 1
  /\ Len(actions) >= Len(Definitions)
  /\ tools = FullMap

\* ------------------------------------------------- str, re (definitions.py)
\* A str is the sequence of its characters, each a one-character string.
LowerCase ==
  <<"a", "b", "c", "d", "e", "f", "g", "h", "i", "j", "k", "l", "m", "n",
    "o", "p", "q", "r", "s", "t", "u", "v", "w", "x", "y", "z">>

UpperCase ==
  <<"A", "B", "C", "D", "E", "F", "G", "H", "I", "J", "K", "L", "M", "N",
    "O", "P", "Q", "R", "S", "T", "U", "V", "W", "X", "Y", "Z">>

Letters == Range(LowerCase)

\* \w of a str pattern, for the characters the texts below are made of.
WordChars ==
  Letters \cup Range(UpperCase) \cup
  {"0", "1", "2", "3", "4", "5", "6", "7", "8", "9", "_"}

\* c.lower()
LowerChar(c) ==
  IF \E k \in 1..Len(UpperCase) : UpperCase[k] = c
  THEN LowerCase[CHOOSE k \in 1..Len(UpperCase) : UpperCase[k] = c]
  ELSE c

\* s.lower()
lower(s) == [i \in 1..Len(s) |-> LowerChar(s[i])]

\* \b before text[i]: a word character on one side only (the ends of the
\* text count as no word character).
Boundary(text, i) ==
  (i > 1 /\ text[i - 1] \in WordChars) # (i <= Len(text) /\ text[i] \in WordChars)

\* [a-z]* from text[i] on, greedy: how many characters it takes.
RECURSIVE LetterRun(_, _)
LetterRun(text, i) ==
  IF i <= Len(text) /\ text[i] \in Letters THEN 1 + LetterRun(text, i + 1) ELSE 0

\* The {3,} of the pattern.
MinLetters == 3

\* re.findall(r'\b[a-z]{3,}\b', text) from text[i] on. The greedy run is the
\* only length \b can follow: any shorter one ends between two letters.
RECURSIVE findall(_, _)
findall(text, i) ==
  IF i > Len(text) THEN <<>>
  ELSE LET n == LetterRun(text, i) IN
       IF Boundary(text, i) /\ n >= MinLetters /\ Boundary(text, i + n)
       THEN <<SubSeq(text, i, i + n - 1)>> \o findall(text, i + n)
       ELSE findall(text, i + 1)

\* The str as a TLA+ string.
RECURSIVE Str(_)
Str(s) == IF s = <<>> THEN "" ELSE s[1] \o Str(Tail(s))

\* ------------------------------- _extract_keywords (definitions.py 494-521)
stopwords ==
  {"the", "a", "an", "and", "or", "but", "in", "on", "at", "to", "for",
   "of", "with", "by", "from", "as", "is", "was", "are", "were", "been",
   "be", "have", "has", "had", "do", "does", "did", "will", "would",
   "could", "should", "may", "might", "must", "shall", "can", "need",
   "meeting", "call", "sync", "discussion", "review", "update", "weekly",
   "monthly", "daily", "team", "group", "re", "fwd", "fw"}

\* keywords[:10]
KeywordLimit == 10

\* The filter-and-dedupe loop from words[i] on; seen is the set of the
\* keywords kept so far.
RECURSIVE filter_words(_, _, _)
filter_words(words, i, kept) ==
  IF i > Len(words) THEN kept
  ELSE filter_words(words, i + 1,
         IF Str(words[i]) \notin stopwords /\ words[i] \notin Range(kept)
         THEN Append(kept, words[i])
         ELSE kept)

\* s[:n]
Slice(s, n) == SubSeq(s, 1, IF Len(s) < n THEN Len(s) ELSE n)

\* _extract_keywords that cuts the words to ten before it filters them.
extract_keywords_cut_first(subject_, body_) ==
  filter_words(Slice(findall(lower(subject_ \o <<" ">> \o body_), 1), KeywordLimit),
               1, <<>>)

\* _extract_keywords that filters the stopwords and keeps the repeats.
extract_keywords_no_dedupe(subject_, body_) ==
  Slice(SelectSeq(findall(lower(subject_ \o <<" ">> \o body_), 1),
                  LAMBDA w : Str(w) \notin stopwords),
        KeywordLimit)

\* DailyBriefingAction._extract_keywords(subject, body)
extract_keywords(subject_, body_) ==
  LET text == lower(subject_ \o <<" ">> \o body_)
      words == findall(text, 1)
  IN Slice(filter_words(words, 1, <<>>), KeywordLimit)

\* ------------------------------------------------ extraction on its own
\* How many phrases a subject or a body is made of, at most.
MaxPhrases == 1

\* "Re: Q3 Spark Pipeline Sync"
SparkSubject ==
  <<"R", "e", ":", " ", "Q", "3", " ", "S", "p", "a", "r", "k", " ", "P",
    "i", "p", "e", "l", "i", "n", "e", " ", "S", "y", "n", "c">>

\* "Discuss Spark optimization for the pipeline"
SparkBody ==
  <<"D", "i", "s", "c", "u", "s", "s", " ", "S", "p", "a", "r", "k", " ",
    "o", "p", "t", "i", "m", "i", "z", "a", "t", "i", "o", "n", " ", "f",
    "o", "r", " ", "t", "h", "e", " ", "p", "i", "p", "e", "l", "i", "n",
    "e">>

\* "budget forecast for the vendor audit; travel-plans, Budget"
BudgetText ==
  <<"b", "u", "d", "g", "e", "t", " ", "f", "o", "r", "e", "c", "a", "s",
    "t", " ", "f", "o", "r", " ", "t", "h", "e", " ", "v", "e", "n", "d",
    "o", "r", " ", "a", "u", "d", "i", "t", ";", " ", "t", "r", "a", "v",
    "e", "l", "-", "p", "l", "a", "n", "s", ",", " ", "B", "u", "d", "g",
    "e", "t">>

\* "migration rollout staging canary metrics latency alerts"
RolloutText ==
  <<"m", "i", "g", "r", "a", "t", "i", "o", "n", " ", "r", "o", "l", "l",
    "o", "u", "t", " ", "s", "t", "a", "g", "i", "n", "g", " ", "c", "a",
    "n", "a", "r", "y", " ", "m", "e", "t", "r", "i", "c", "s", " ", "l",
    "a", "t", "e", "n", "c", "y", " ", "a", "l", "e", "r", "t", "s">>

\* "Weekly TEAM meeting: FWD the ROADMAP"
ShoutedText ==
  <<"W", "e", "e", "k", "l", "y", " ", "T", "E", "A", "M", " ", "m", "e",
    "e", "t", "i", "n", "g", ":", " ", "F", "W", "D", " ", "t", "h", "e",
    " ", "R", "O", "A", "D", "M", "A", "P">>

\* "abc1 x_ray go2market API_v2 2fa dev"
MixedText ==
  <<"a", "b", "c", "1", " ", "x", "_", "r", "a", "y", " ", "g", "o", "2",
    "m", "a", "r", "k", "e", "t", " ", "A", "P", "I", "_", "v", "2", " ",
    "2", "f", "a", " ", "d", "e", "v">>

\* " it is ok "
ShortText ==
  <<" ", "i", "t", " ", "i", "s", " ", "o", "k", " ">>

Phrases ==
  {SparkSubject, SparkBody, BudgetText, RolloutText, ShoutedText,
   MixedText, ShortText}

\* The texts of at most n phrases, one after the other.
RECURSIVE TextsOf(_)
TextsOf(n) ==
  IF n = 0 THEN {<<>>}
  ELSE LET shorter == TextsOf(n - 1) IN
       shorter \cup {t \o p : t \in shorter, p \in Phrases}

Texts == TextsOf(MaxPhrases)

\* A caller holding a subject and a body.
KeywordInit ==
  /\ InitFramework
  /\ NoCallers
  /\ subject \in Texts
  /\ body \in Texts
  /\ keywords = <<>>
  /\ stage = "given"
  /\ meeting = NoMeeting
  /\ emails = <<>>
  /\ contributor_scores = <<>>
  /\ alternatives = <<>>
  /\ meetings = <<>>
  /\ conflicts = <<>>

\* keywords = self._extract_keywords(subject, body)
ExtractKeywords ==
  /\ stage = "given"
  /\ keywords' = extract_keywords(subject, body)
  /\ stage' = "returned"
  /\ UNCHANGED <<framework, callers, subject, body, meeting, emails, contributor_scores,
                 alternatives, meetings, conflicts>>

KeywordNext == ExtractKeywords

KeywordSpec == KeywordInit /\ [][KeywordNext]_vars

\* ------------------------------------------- properties of the extraction
\* The text _extract_keywords reads: subject, a blank, body, lowercased.
GivenText == lower(subject \o <<" ">> \o body)

\* Where the words of a text stand, as <<first, last>>: the runs of letters
\* that no letter, digit or underscore precedes or follows, of three
\* letters or more.
WordPlaces(text) ==
  LET n == Len(text)
      starts == {p \in 1..n : text[p] \in Letters /\ (p = 1 \/ text[p - 1] \notin WordChars)}
      last(p) == CHOOSE q \in p..n :
                   /\ \A r \in p..q : text[r] \in Letters
                   /\ q = n \/ text[q + 1] \notin Letters
  IN {<<p, last(p)>> :
        p \in {s \in starts : /\ last(s) - s + 1 >= 3
                              /\ last(s) = n \/ text[last(s) + 1] \notin WordChars}}

\* The places of the words that are no stopwords.
KeptPlaces(text) ==
  {pl \in WordPlaces(text) : Str(SubSeq(text, pl[1], pl[2])) \notin stopwords}

\* Where the word w stands first in the text, places being where its words
\* stand.
FirstPlace(text, places, w) ==
  LET at == {pl[1] : pl \in {x \in places : SubSeq(text, x[1], x[2]) = w}}
  IN CHOOSE p \in at : \A q \in at : p <= q

\* C12: for every subject and body, _extract_keywords returns at most 10
\* terms; every term is made of lowercase letters, three at least, is no
\* stopword, is a word of the text and occurs once in the result; the
\* terms stand in the order of their first occurrence in subject followed
\* by body; and the result is the first 10 of the deduplicated
\* non-stopword words: a non-stopword word of the text that is not returned
\* first occurs after the tenth term returned.
C12_KeywordContract ==
  stage = "returned" =>
    LET text == GivenText
        kept == KeptPlaces(text)
        first == [i \in 1..Len(keywords) |-> FirstPlace(text, kept, keywords[i])]
    IN /\ Len(keywords) <= 10
       /\ \A i \in 1..Len(keywords) :
            /\ Len(keywords[i]) >= 3
            /\ \A k \in 1..Len(keywords[i]) : keywords[i][k] \in Letters
            /\ Str(keywords[i]) \notin stopwords
            /\ \E pl \in kept : SubSeq(text, pl[1], pl[2]) = keywords[i]
       /\ \A i, j \in 1..Len(keywords) :
            i < j => /\ keywords[i] # keywords[j]
                     /\ first[i] < first[j]
       /\ \A pl \in kept :
            \/ SubSeq(text, pl[1], pl[2]) \in Range(keywords)
            \/ /\ Len(keywords) = 10
               /\ first[10] < pl[1]

\* Ten terms were returned of a text that holds more non-stopword words
\* than ten, a stopword, a word in capitals and a word twice.
C12_Witness ==
  /\ stage = "returned"
  /\ Len(keywords) = 10
  /\ \E pl \in KeptPlaces(GivenText) :
       SubSeq(GivenText, pl[1], pl[2]) \notin Range(keywords)
  /\ KeptPlaces(GivenText) # WordPlaces(GivenText)
  /\ GivenText # subject \o <<" ">> \o body
  /\ \E pl, pm \in KeptPlaces(GivenText) :
       /\ pl # pm
       /\ SubSeq(GivenText, pl[1], pl[2]) = SubSeq(GivenText, pm[1], pm[2])

\* The noise words the specification lists for the stopword set.
NamedStopwords ==
  {"meeting", "call", "sync", "discussion", "review", "update", "weekly",
   "monthly", "daily", "team", "group", "re", "fwd", "fw"}

\* C13: for the subject "Re: Q3 Spark Pipeline Sync" and the body "Discuss
\* Spark optimization for the pipeline" the result holds none of "re",
\* "sync" and "discuss" and holds "spark", "pipeline" and "optimization" in
\* this order; and no result of any input holds a word the specification
\* names as a stopword.
C13_SparkScenario ==
  stage = "returned" =>
    LET terms == [i \in 1..Len(keywords) |-> Str(keywords[i])] IN
    /\ (subject = SparkSubject /\ body = SparkBody) =>
         /\ Range(terms) \cap {"re", "sync", "discuss"} = {}
         /\ \E i, j, k \in 1..Len(terms) :
              /\ i < j /\ j < k
              /\ terms[i] = "spark"
              /\ terms[j] = "pipeline"
              /\ terms[k] = "optimization"
    /\ Range(terms) \cap NamedStopwords = {}

\* ------------------------------------------ str comparison and containment
\* The characters of the times, in code point order.
TimeChars == <<"0", "1", "2", "3", "4", "5", "6", "7", "8", "9", ":">>

Ord(c) == CHOOSE k \in 1..Len(TimeChars) : TimeChars[k] = c

\* a < b of two str
RECURSIVE StrLess(_, _)
StrLess(a, b) ==
  IF b = <<>> THEN FALSE
  ELSE IF a = <<>> THEN TRUE
  ELSE IF a[1] = b[1] THEN StrLess(Tail(a), Tail(b))
  ELSE Ord(a[1]) < Ord(b[1])

\* kw in text
Contains(text, kw) ==
  \E p \in 1..(Len(text) - Len(kw) + 1) : SubSeq(text, p, p + Len(kw) - 1) = kw

\* ------------------------------------------- meetings, people and emails
\* A field that is missing is <<>>, the default the code reads it with.
\* A person is a dict {"name": ..., "email": ...} (named: it has the key
\* "name") or a plain str.
Person(name, address) ==
  [dict |-> TRUE, named |-> TRUE, name |-> name, email |-> address]

Plain(s) == [dict |-> FALSE, named |-> FALSE, name |-> s, email |-> <<>>]

\* A dict without the key "name".
Nameless(address) ==
  [dict |-> TRUE, named |-> FALSE, name |-> <<>>, email |-> address]

Meeting(s, b, start, end, attendees) ==
  [subject |-> s, body |-> b, start |-> start, end |-> end,
   attendees |-> attendees]

\* An email with the key "bodyPreview" (and a body), and one without it.
Previewed(sender, s, preview, b) ==
  [from |-> sender, subject |-> s, has_preview |-> TRUE,
   bodyPreview |-> preview, body |-> b]

Unpreviewed(sender, s, b) ==
  [from |-> sender, subject |-> s, has_preview |-> FALSE,
   bodyPreview |-> <<>>, body |-> b]

\* ----------- _find_alternative_contributors (definitions.py 362-407)
AttributeError == Exc("Logic", "'dict' object has no attribute 'lower'")

\* The exclusion set that compares the names as they are written.
exclude_names_as_written(exclude) ==
  IF \E i \in 1..Len(exclude) : exclude[i].dict /\ ~exclude[i].named
  THEN [exc |-> AttributeError, value |-> {}]
  ELSE [exc |-> NoExc, value |-> {exclude[i].name : i \in 1..Len(exclude)}]

\* Lines 368-373: the lowercased names of the attendees; an attendee dict
\* without a name stands for itself, and has no lower().
exclude_names(exclude) ==
  IF \E i \in 1..Len(exclude) : exclude[i].dict /\ ~exclude[i].named
  THEN [exc |-> AttributeError, value |-> {}]
  ELSE [exc |-> NoExc, value |-> {lower(exclude[i].name) : i \in 1..Len(exclude)}]

\* Lines 378-380: the text of an email the keywords are looked up in.
email_text(email) ==
  lower(email.subject) \o <<" ">> \o
  lower(IF email.has_preview THEN email.bodyPreview ELSE email.body)

\* The loop body with score = keyword_matches in place of +=.
score_email_overwrite(kws, excluded, scores, email) ==
  LET matched == {k \in 1..Len(kws) : Contains(email_text(email), kws[k])}
      sender_name == email.from.name
  IN IF matched = {} \/ sender_name = <<>> \/ lower(sender_name) \in excluded
     THEN scores
     ELSE SetItem(scores, sender_name,
                  [name |-> sender_name, email |-> email.from.email,
                   score |-> Cardinality(matched),
                   topics |-> {kws[k] : k \in matched}])

\* Lines 377-398, the body of `for email in emails`: scores is
\* contributor_scores before the email, the value is it after.
score_email(kws, excluded, scores, email) ==
  LET text == email_text(email)
      matched == {k \in 1..Len(kws) : Contains(text, kws[k])}
      keyword_matches == Cardinality(matched)
      sender_name == email.from.name
      sender_email == IF email.from.dict THEN email.from.email ELSE <<>>
      entry == IF sender_name \in Keys(scores)
               THEN Get(scores, sender_name)
               ELSE [name |-> sender_name, email |-> sender_email,
                     score |-> 0, topics |-> {}]
  IN IF keyword_matches = 0 THEN scores
     ELSE IF sender_name # <<>> /\ lower(sender_name) \notin excluded
     THEN SetItem(scores, sender_name,
                  [entry EXCEPT !.score = @ + keyword_matches,
                                !.topics = @ \cup {kws[k] : k \in matched}])
     ELSE scores

\* The loop from emails[i] on.
RECURSIVE score_emails(_, _, _, _, _)
score_emails(kws, excluded, scores, es, i) ==
  IF i > Len(es) THEN scores
  ELSE score_emails(kws, excluded, score_email(kws, excluded, scores, es[i]),
                    es, i + 1)

\* One candidate put into a list sorted by score, highest first, behind the
\* candidates of the same score.
insert_by_score(sorted, x) ==
  LET ahead == Cardinality({i \in 1..Len(sorted) : sorted[i].score >= x.score})
  IN SubSeq(sorted, 1, ahead) \o <<x>> \o SubSeq(sorted, ahead + 1, Len(sorted))

\* A sort by score that puts, of two candidates of the same score, the
\* later one first (an ascending sort, reversed).
RECURSIVE sorted_by_score_reversed(_)
sorted_by_score_reversed(values) ==
  IF values = <<>> THEN <<>>
  ELSE LET rest == sorted_by_score_reversed(Tail(values))
           ahead == Cardinality({i \in 1..Len(rest) : rest[i].score >= values[1].score})
       IN SubSeq(rest, 1, ahead) \o <<values[1]>> \o SubSeq(rest, ahead + 1, Len(rest))

\* sorted(values, key=lambda x: x["score"], reverse=True): stable, the
\* candidates of one score stay in the order they came in.
RECURSIVE sorted_by_score(_)
sorted_by_score(values) ==
  IF values = <<>> THEN <<>>
  ELSE insert_by_score(sorted_by_score(SubSeq(values, 1, Len(values) - 1)),
                       values[Len(values)])

\* [:3] of line 401 and of line 405.
TopAlternatives == 3

TopTopics == 3

\* list(topics): a set of str is iterated in the order of the hashes of its
\* members, which the interpreter draws anew in every process; order ranks
\* the positions of the keywords, any way round.
list_of_set(topics, kws, order) ==
  LET at == {k \in 1..Len(kws) : kws[k] \in topics}
  IN [i \in 1..Cardinality(at) |->
        kws[CHOOSE k \in at : Cardinality({j \in at : order[j] < order[k]}) = i - 1]]

\* Lines 400-407: the three candidates of the highest score, each with three
\* of its topics.
rank_alternatives(scores, kws, order) ==
  LET top == Slice(sorted_by_score(Values(scores)), TopAlternatives)
  IN [i \in 1..Len(top) |->
        [top[i] EXCEPT !.topics = Slice(list_of_set(@, kws, order), TopTopics)]]

\* DailyBriefingAction._find_alternative_contributors(meeting, emails,
\* exclude): the exception it raises, or the list it returns.
find_alternative_contributors(m, es, exclude, order) ==
  LET kws == extract_keywords(m.subject, m.body)
      excluded == exclude_names(exclude)
  IN IF excluded.exc # NoExc
     THEN [exc |-> excluded.exc, value |-> <<>>]
     ELSE [exc |-> NoExc,
           value |-> rank_alternatives(
                       score_emails(kws, excluded.value, <<>>, es, 1), kws, order)]

\* ------------------------------- _detect_conflicts (definitions.py 316-360)
\* The test with <= : intervals that include their end.
is_conflict_closed(m1, m2) ==
  IF m1.start # <<>> /\ m2.start # <<>> /\ m1.end # <<>> /\ m2.end # <<>>
  THEN ~StrLess(m2.end, m1.start) /\ ~StrLess(m1.end, m2.start)
  ELSE IF m1.start # <<>> /\ m2.start # <<>>
  THEN m1.start = m2.start
  ELSE FALSE

\* The test without the elif branch: a pair with an end missing is no
\* conflict.
is_conflict_no_fallback(m1, m2) ==
  IF m1.start # <<>> /\ m2.start # <<>> /\ m1.end # <<>> /\ m2.end # <<>>
  THEN StrLess(m1.start, m2.end) /\ StrLess(m2.start, m1.end)
  ELSE FALSE

\* Lines 328-337: is_conflict of a pair.
is_conflict(m1, m2) ==
  IF m1.start # <<>> /\ m2.start # <<>> /\ m1.end # <<>> /\ m2.end # <<>>
  THEN StrLess(m1.start, m2.end) /\ StrLess(m2.start, m1.end)
  ELSE IF m1.start # <<>> /\ m2.start # <<>>
  THEN m1.start = m2.start
  ELSE FALSE

Unknown == <<"U", "n", "k", "n", "o", "w", "n">>

\* m.get("subject", "Unknown")
SubjectOf(m) == IF m.subject = <<>> THEN Unknown ELSE m.subject

\* Lines 339-358: the conflict of a pair, or the exception raised on the
\* way.
conflict_of(m1, m2, es, order) ==
  LET alternatives1 == IF es # <<>>
                       THEN find_alternative_contributors(m1, es, m1.attendees, order)
                       ELSE [exc |-> NoExc, value |-> <<>>]
      alternatives2 == IF es # <<>>
                       THEN find_alternative_contributors(m2, es, m2.attendees, order)
                       ELSE [exc |-> NoExc, value |-> <<>>]
  IN [exc |-> IF alternatives1.exc # NoExc THEN alternatives1.exc ELSE alternatives2.exc,
      value |-> [meeting1 |-> SubjectOf(m1), meeting2 |-> SubjectOf(m2),
                 time1 |-> m1.start, time2 |-> m2.start,
                 alternatives1 |-> alternatives1.value,
                 alternatives2 |-> alternatives2.value]]

\* The two loops from the pair (i, j) on, found_ being the conflicts so
\* far; for m1 at i the inner loop runs over meetings[i+skip:].
RECURSIVE scan_pairs(_, _, _, _, _, _, _)
scan_pairs(ms, es, order, i, j, found_, skip) ==
  IF i > Len(ms) THEN [exc |-> NoExc, value |-> found_]
  ELSE IF j > Len(ms) THEN scan_pairs(ms, es, order, i + 1, i + 1 + skip, found_, skip)
  ELSE IF ~is_conflict(ms[i], ms[j]) THEN scan_pairs(ms, es, order, i, j + 1, found_, skip)
  ELSE LET c == conflict_of(ms[i], ms[j], es, order) IN
       IF c.exc # NoExc THEN [exc |-> c.exc, value |-> <<>>]
       ELSE scan_pairs(ms, es, order, i, j + 1, Append(found_, c.value), skip)

\* _detect_conflicts with meetings[i:] as the inner loop.
detect_conflicts_from_self(ms, es, order) ==
  scan_pairs(ms, es, order, 1, 1, <<>>, 0)

\* DailyBriefingAction._detect_conflicts(meetings, emails): for m1 at i, m2
\* runs over meetings[i+1:].
detect_conflicts(ms, es, order) ==
  scan_pairs(ms, es, order, 1, 2, <<>>, 1)

\* ------------------------------------------------- the inputs of the helpers
\* "10:00" and so on.
Time1000 == <<"1", "0", ":", "0", "0">>
Time1015 == <<"1", "0", ":", "1", "5">>
Time1030 == <<"1", "0", ":", "3", "0">>
Time1045 == <<"1", "0", ":", "4", "5">>
Time1100 == <<"1", "1", ":", "0", "0">>

\* "Spark Pipeline Audit"
SparkAgenda ==
  <<"S", "p", "a", "r", "k", " ", "P", "i", "p", "e", "l", "i", "n", "e", " ",
    "A", "u", "d", "i", "t">>

\* "Spark Pipeline Budget Audit"
BroadAgenda ==
  <<"S", "p", "a", "r", "k", " ", "P", "i", "p", "e", "l", "i", "n", "e", " ",
    "B", "u", "d", "g", "e", "t", " ", "A", "u", "d", "i", "t">>

\* "Budget review"
BudgetSubject ==
  <<"B", "u", "d", "g", "e", "t", " ", "r", "e", "v", "i", "e", "w">>

\* "audit the budget"
BudgetAgenda ==
  <<"a", "u", "d", "i", "t", " ", "t", "h", "e", " ", "b", "u", "d", "g",
    "e", "t">>

\* "Pipeline planning"
PlanningSubject ==
  <<"P", "i", "p", "e", "l", "i", "n", "e", " ", "p", "l", "a", "n", "n",
    "i", "n", "g">>

\* "Audit"
AuditSubject ==
  <<"A", "u", "d", "i", "t">>

\* "Spark standup"
StandupSubject ==
  <<"S", "p", "a", "r", "k", " ", "s", "t", "a", "n", "d", "u", "p">>

\* 10:00-10:30, Bob (a plain str, in capitals) and Carol attending.
SparkMeeting ==
  Meeting(SparkAgenda, <<>>, Time1000, Time1030,
          <<Plain(<<"B", "O", "B">>), Person(<<"C", "a", "r", "o", "l">>, <<"c", "@", "x">>)>>)

\* The same with one topic more.
BroadMeeting == [SparkMeeting EXCEPT !.subject = BroadAgenda]

\* 10:15-10:45, Fay (in capitals) attending.
BudgetMeeting ==
  Meeting(BudgetSubject, BudgetAgenda, Time1015, Time1045,
          <<Person(<<"F", "A", "Y">>, <<"f", "@", "x">>)>>)

\* 10:30-11:00
PlanningMeeting == Meeting(PlanningSubject, <<>>, Time1030, Time1100, <<>>)

\* 10:15-10:15: it ends as it starts.
PointMeeting == Meeting(AuditSubject, <<>>, Time1015, Time1015, <<>>)

\* From 10:00, no end given; an attendee known by address only.
OpenMeeting ==
  Meeting(StandupSubject, <<>>, Time1000, <<>>, <<Nameless(<<"g", "@", "x">>)>>)

\* No start given, to end at 10:30.
UntimedMeeting == Meeting(PlanningSubject, <<>>, <<>>, Time1030, <<>>)

\* "Spark tips"
SparkTips ==
  <<"S", "p", "a", "r", "k", " ", "t", "i", "p", "s">>

\* "Pipelines"
Pipelines ==
  <<"P", "i", "p", "e", "l", "i", "n", "e", "s">>

\* "spark pipeline"
SparkPipeline ==
  <<"s", "p", "a", "r", "k", " ", "p", "i", "p", "e", "l", "i", "n", "e">>

\* "spark pipeline budget audit"
AllTopics ==
  <<"s", "p", "a", "r", "k", " ", "p", "i", "p", "e", "l", "i", "n", "e",
    " ", "b", "u", "d", "g", "e", "t", " ", "a", "u", "d", "i", "t">>

\* "Re: audit"
ReAudit ==
  <<"R", "e", ":", " ", "a", "u", "d", "i", "t">>

\* "notes"
Notes ==
  <<"n", "o", "t", "e", "s">>

DanEmail ==
  Unpreviewed(Person(<<"D", "a", "n">>, <<"d", "@", "x">>), SparkTips, AllTopics)

EveEmail ==
  Unpreviewed(Person(<<"E", "v", "e">>, <<"e", "@", "x">>), Pipelines, Notes)

\* A preview and a body that says more.
FayEmail ==
  Previewed(Person(<<"F", "a", "y">>, <<"f", "@", "x">>), AuditSubject, Notes, AllTopics)

\* The sender a plain str, the preview empty.
HalEmail == Previewed(Plain(<<"H", "a", "l">>), ReAudit, <<>>, SparkPipeline)

MeetingPool ==
  {SparkMeeting, BudgetMeeting, PlanningMeeting, PointMeeting, OpenMeeting,
   UntimedMeeting}

EmailPool == {DanEmail, EveEmail, FayEmail, HalEmail}

Corpus == <<DanEmail, EveEmail, FayEmail, HalEmail>>

Corpora == {<<>>, Corpus}

\* The most keywords a meeting of the pool has.
MostKeywords ==
  LET counts == {Len(extract_keywords(m.subject, m.body)) : m \in MeetingPool}
  IN CHOOSE n \in counts : \A c \in counts : c <= n

\* The orders a process may iterate a set of n keywords in.
HashOrders(n) == Permutations(1..n)

\* -------------------------------- _find_alternative_contributors on its own
\* How many emails the corpus holds, at most.
MaxEmails == 4

AltMeetings == {BroadMeeting, BudgetMeeting, OpenMeeting}

\* A caller holding a meeting; the corpus is drawn email by email as the
\* loop reads it.
AlternativesInit ==
  /\ InitFramework
  /\ NoCallers
  /\ meeting \in AltMeetings
  /\ stage = "given"
  /\ subject = <<>>
  /\ body = <<>>
  /\ keywords = <<>>
  /\ emails = <<>>
  /\ contributor_scores = <<>>
  /\ alternatives = <<>>
  /\ meetings = <<>>
  /\ conflicts = <<>>

\* Lines 364-375: the keywords, the exclusion set (exclude being the
\* attendees, as _detect_conflicts passes them), the empty dict.
EnterLoop ==
  /\ stage = "given"
  /\ keywords' = extract_keywords(meeting.subject, meeting.body)
  /\ stage' = IF exclude_names(meeting.attendees).exc = NoExc THEN "loop" ELSE "raised"
  /\ UNCHANGED <<framework, callers, subject, body, meeting, emails, contributor_scores,
                 alternatives, meetings, conflicts>>

\* One turn of `for email in emails`.
ReadEmail(email) ==
  /\ stage = "loop"
  /\ Len(emails) < MaxEmails
  /\ emails' = Append(emails, email)
  /\ contributor_scores' =
       score_email(keywords, exclude_names(meeting.attendees).value,
                   contributor_scores, email)
  /\ UNCHANGED <<framework, callers, subject, body, keywords, meeting, alternatives,
                 meetings, conflicts, stage>>

\* The corpus is read: lines 400-407.
RankAlternatives(order) ==
  /\ stage = "loop"
  /\ alternatives' = rank_alternatives(contributor_scores, keywords, order)
  /\ stage' = "returned"
  /\ UNCHANGED <<framework, callers, subject, body, keywords, meeting, emails,
                 contributor_scores, meetings, conflicts>>

AlternativesNext ==
  \/ EnterLoop
  \/ \E email \in EmailPool : ReadEmail(email)
  \/ \E order \in HashOrders(Len(keywords)) : RankAlternatives(order)

AlternativesSpec == AlternativesInit /\ [][AlternativesNext]_vars

\* ------------------------------------------- _detect_conflicts on its own
\* How many meetings the day holds, at most.
MaxDetect == 3

\* The lists of at most n meetings.
ListsOf(n) == UNION {[1..k -> MeetingPool] : k \in 0..n}

\* A caller holding the meetings of the day and a corpus.
ConflictInit ==
  /\ InitFramework
  /\ NoCallers
  /\ meetings \in ListsOf(MaxDetect)
  /\ emails \in Corpora
  /\ stage = "given"
  /\ subject = <<>>
  /\ body = <<>>
  /\ keywords = <<>>
  /\ meeting = NoMeeting
  /\ contributor_scores = <<>>
  /\ alternatives = <<>>
  /\ conflicts = <<>>

\* conflicts = self._detect_conflicts(meetings, emails)
DetectConflicts(order) ==
  /\ stage = "given"
  /\ LET r == detect_conflicts(meetings, emails, order) IN
       /\ conflicts' = r.value
       /\ stage' = IF r.exc = NoExc THEN "returned" ELSE "raised"
  /\ UNCHANGED <<framework, callers, subject, body, keywords, meeting, emails,
                 contributor_scores, alternatives, meetings>>

ConflictNext == \E order \in HashOrders(MostKeywords) : DetectConflicts(order)

ConflictSpec == ConflictInit /\ [][ConflictNext]_vars

\* -------------------------------------------- properties of the detection
\* The conflict c names the meetings at the positions i and j, in this
\* order.
Records(c, i, j) ==
  /\ c.meeting1 = SubjectOf(meetings[i])
  /\ c.time1 = meetings[i].start
  /\ c.meeting2 = SubjectOf(meetings[j])
  /\ c.time2 = meetings[j].start

\* The result reports the meetings at i and j as a conflict.
Reported(i, j) == \E k \in 1..Len(conflicts) : Records(conflicts[k], i, j)

\* The pairs of positions, first before second, of meetings that both have
\* a start and an end.
TimedPairs ==
  {p \in (1..Len(meetings)) \X (1..Len(meetings)) :
     /\ p[1] < p[2]
     /\ \A i \in {p[1], p[2]} : meetings[i].start # <<>> /\ meetings[i].end # <<>>}

\* The instants the meetings of the pool start and end at.
Instants == {m.start : m \in MeetingPool} \cup {m.end : m \in MeetingPool}

\* The instant t lies in [start, end) of m.
During(m, t) == (m.start = t \/ StrLess(m.start, t)) /\ StrLess(t, m.end)

\* C15: for every pair of meetings that both have a start and an end,
\* detect reports the pair if and only if the half-open intervals
\* [start, end) of the two share an instant, whatever the starts and ends
\* are, a meeting that ends as or before it starts included.
C15_ConflictIffOverlap ==
  stage = "returned" =>
    \A p \in TimedPairs :
      Reported(p[1], p[2]) <=>
        \E t \in Instants : During(meetings[p[1]], t) /\ During(meetings[p[2]], t)

\* The meeting starts before it ends.
Proper(m) == StrLess(m.start, m.end)

\* b starts strictly inside [start, end) of a.
StartsInside(a, b) == StrLess(a.start, b.start) /\ StrLess(b.start, a.end)

\* One of the two ends as the other starts.
Adjoin(a, b) == a.end = b.start \/ b.end = a.start

\* C16: of two meetings with start < end each, the pair is reported when
\* one starts strictly inside the interval of the other, and is not
\* reported when one ends as the other starts; and the outcome is the same
\* with the two in the other order in the list.
C16_OverlapAndBoundary ==
  stage = "returned" =>
    \A p \in TimedPairs :
      LET a == meetings[p[1]]
          b == meetings[p[2]]
      IN (Proper(a) /\ Proper(b)) =>
           /\ (StartsInside(a, b) \/ StartsInside(b, a)) => Reported(p[1], p[2])
           /\ Adjoin(a, b) => ~Reported(p[1], p[2])
           /\ \A q \in TimedPairs :
                (meetings[q[1]] = b /\ meetings[q[2]] = a) =>
                  (Reported(p[1], p[2]) <=> Reported(q[1], q[2]))

\* A list with a meeting that starts inside the one listed before it,
\* reported, and with two meetings of which one ends as the other starts,
\* the later one listed first, not reported.
C16_Witness ==
  /\ stage = "returned"
  /\ \E p \in TimedPairs :
       /\ Proper(meetings[p[1]]) /\ Proper(meetings[p[2]])
       /\ StartsInside(meetings[p[1]], meetings[p[2]])
       /\ Reported(p[1], p[2])
  /\ \E p \in TimedPairs :
       /\ Proper(meetings[p[1]]) /\ Proper(meetings[p[2]])
       /\ meetings[p[2]].end = meetings[p[1]].start
       /\ ~Reported(p[1], p[2])

\* The pairs of positions, first before second, whose meetings conflict.
ConflictPairs ==
  {p \in (1..Len(meetings)) \X (1..Len(meetings)) :
     p[1] < p[2] /\ is_conflict(meetings[p[1]], meetings[p[2]])}

\* The pair q comes before the pair p in the scan: by the first position,
\* then by the second.
ScannedBefore(q, p) == q[1] < p[1] \/ (q[1] = p[1] /\ q[2] < p[2])

\* The k-th conflicting pair of the scan.
PairAt(k) ==
  CHOOSE p \in ConflictPairs :
    Cardinality({q \in ConflictPairs : ScannedBefore(q, p)}) = k - 1

\* C17: detect reports one conflict for every pair of positions i < j whose
\* meetings conflict and nothing else, in the order of the scan: by the
\* position of the first meeting, then by the position of the second. No
\* pair is reported twice, no meeting is paired with itself.
C17_ScanOrder ==
  stage = "returned" =>
    /\ Len(conflicts) = Cardinality(ConflictPairs)
    /\ \A k \in 1..Len(conflicts) : Records(conflicts[k], PairAt(k)[1], PairAt(k)[2])

\* Meetings [A, B, C] with A, B overlapping, B, C overlapping and A, C not:
\* the result is [(A, B), (B, C)].
C17_Witness ==
  /\ stage = "returned"
  /\ meetings = <<SparkMeeting, BudgetMeeting, PlanningMeeting>>
  /\ Len(conflicts) = 2
  /\ Records(conflicts[1], 1, 2)
  /\ Records(conflicts[2], 2, 3)
  /\ ~Reported(1, 3)

\* The attendees' names, lowercased.
AttendeeNames(m) == {lower(m.attendees[i].name) : i \in 1..Len(m.attendees)}

\* What each email of es brings the meeting m: matches, how many keywords
\* of m the lowercased subject and preview (or body) of the email hold;
\* counts, whether a keyword matches, the sender has a name and it is not
\* the name of an attendee.
Counts(m, es) ==
  LET kws == extract_keywords(m.subject, m.body)
      names == AttendeeNames(m)
  IN [i \in 1..Len(es) |->
        LET text == lower(es[i].subject \o <<" ">> \o
                          (IF es[i].has_preview THEN es[i].bodyPreview ELSE es[i].body))
            n == Cardinality({k \in 1..Len(kws) : Contains(text, kws[k])})
        IN [matches |-> n,
            counts |-> n > 0 /\ es[i].from.name # <<>>
                             /\ lower(es[i].from.name) \notin names]]

\* The sum of the matches of the emails of es that count and are sent
\* under the name n: one pair for every match of every such email.
ScoreOf(brought, es, n) ==
  Cardinality(UNION {{<<i, k>> : k \in 1..brought[i].matches} :
                       i \in {e \in 1..Len(es) : brought[e].counts /\ es[e].from.name = n}})

\* The delegates suggested for the meeting m are no attendees of m, and
\* their scores are made of the emails under their names.
Unattending(suggested, m) ==
  LET brought == Counts(m, emails) IN
  \A i \in 1..Len(suggested) :
    /\ lower(suggested[i].name) \notin AttendeeNames(m)
    /\ suggested[i].score = ScoreOf(brought, emails, suggested[i].name)

\* C18: for every conflict and each of its two meetings, no delegate
\* suggested for the meeting has the name, letter case ignored, of one of
\* its attendees, and the score of a delegate is made of the emails sent
\* under the delegate's name only: an email sent by an attendee adds to no
\* score.
C18_AttendeesNotSuggested ==
  stage = "returned" =>
    \A k \in 1..Len(conflicts) :
      /\ Unattending(conflicts[k].alternatives1, meetings[PairAt(k)[1]])
      /\ Unattending(conflicts[k].alternatives2, meetings[PairAt(k)[2]])

\* A conflict of a meeting with delegates suggested, the corpus holding an
\* email on its topics by one of its attendees, whose name the email
\* writes in other letter case than the meeting.
C18_Witness ==
  /\ stage = "returned"
  /\ \E k \in 1..Len(conflicts) :
       LET m == meetings[PairAt(k)[1]]
           brought == Counts(m, emails)
       IN /\ conflicts[k].alternatives1 # <<>>
          /\ \E i \in 1..Len(emails), a \in 1..Len(m.attendees) :
               /\ brought[i].matches > 0
               /\ lower(emails[i].from.name) = lower(m.attendees[a].name)
               /\ emails[i].from.name # m.attendees[a].name

\* ------------------------------------------ properties of the suggestions
\* The names the emails make candidates of.
Candidates(brought) ==
  {emails[i].from.name : i \in {k \in 1..Len(emails) : brought[k].counts}}

\* The position in the corpus of the first email that counts for the
\* candidate n.
FirstEmailOf(brought, n) ==
  CHOOSE i \in 1..Len(emails) :
    /\ brought[i].counts /\ emails[i].from.name = n
    /\ \A j \in 1..(i - 1) : ~(brought[j].counts /\ emails[j].from.name = n)

\* C19: _find_alternative_contributors returns at most 3 candidates, each
\* once and with its accumulated score, the higher score first and, of two
\* with the same score, the one whose first counting email comes first in
\* the corpus; a candidate that is not returned has no higher score than
\* the last one returned; and every candidate returned shows at most 3
\* keywords, each once and each matched by an email of the candidate.
C19_TopThree ==
  stage = "returned" =>
    LET brought == Counts(meeting, emails)
        returned == {alternatives[i].name : i \in 1..Len(alternatives)}
    IN /\ Len(alternatives) <= 3
       /\ returned \subseteq Candidates(brought)
       /\ \A i \in 1..Len(alternatives) :
            /\ alternatives[i].score = ScoreOf(brought, emails, alternatives[i].name)
            /\ Len(alternatives[i].topics) <= 3
            /\ Cardinality(Range(alternatives[i].topics)) = Len(alternatives[i].topics)
            /\ \A t \in 1..Len(alternatives[i].topics) :
                 \E k \in 1..Len(emails) :
                   /\ emails[k].from.name = alternatives[i].name
                   /\ Contains(email_text(emails[k]), alternatives[i].topics[t])
       /\ \A i, j \in 1..Len(alternatives) :
            i < j =>
              /\ alternatives[i].name # alternatives[j].name
              /\ \/ alternatives[i].score > alternatives[j].score
                 \/ /\ alternatives[i].score = alternatives[j].score
                    /\ FirstEmailOf(brought, alternatives[i].name) <
                         FirstEmailOf(brought, alternatives[j].name)
       /\ \A n \in Candidates(brought) \ returned :
            /\ Len(alternatives) = 3
            /\ ScoreOf(brought, emails, n) <= alternatives[3].score

\* Three of four candidates were returned, the last two and the one left
\* out with the same score, the first with three of the four keywords its
\* email matched.
C19_Witness ==
  /\ stage = "returned"
  /\ Len(alternatives) = 3
  /\ Cardinality(Candidates(Counts(meeting, emails))) = 4
  /\ alternatives[2].score = alternatives[3].score
  /\ alternatives[1].score = 4
  /\ Len(alternatives[1].topics) = 3

\* The scores the dict holds are those of the emails es read so far.
ScoresAgree(scores, es) ==
  LET brought == Counts(meeting, es)
      named == {es[i].from.name : i \in {k \in 1..Len(es) : brought[k].counts}}
  IN /\ Keys(scores) = named
     /\ \A n \in named : Get(scores, n).score = ScoreOf(brought, es, n)

\* C20: while the corpus is read, the score of a candidate is the sum of
\* the matches of the emails read so far that are sent under its name by
\* no attendee and match a keyword at least (the number of the meeting's
\* keywords the lowercased subject and preview or body of the email holds),
\* the final score being the sum over the corpus; from one email to the
\* next no candidate is dropped and no score decreases; an email that
\* matches no keyword changes no score and makes no candidate.
C20_ScoresAccumulate ==
  [][stage' \in {"loop", "returned"} =>
       /\ ScoresAgree(contributor_scores', emails')
       /\ \A n \in Keys(contributor_scores) :
            /\ n \in Keys(contributor_scores')
            /\ Get(contributor_scores', n).score >= Get(contributor_scores, n).score
       /\ (Len(emails') > Len(emails) /\
           Counts(meeting, emails')[Len(emails')].matches = 0) =>
            contributor_scores' = contributor_scores]_vars

\* A candidate with two counting emails read, an email without a match and
\* an email of an attendee on the topics read as well.
C20_Witness ==
  LET brought == Counts(meeting, emails) IN
  /\ stage = "loop"
  /\ \E n \in Candidates(brought) :
       /\ Get(contributor_scores, n).score >= 2
       /\ \E i, j \in 1..Len(emails) :
            /\ i < j
            /\ emails[i].from.name = n /\ emails[j].from.name = n
            /\ brought[i].counts /\ brought[j].counts
  /\ \E i \in 1..Len(emails) : brought[i].matches = 0
  /\ \E i \in 1..Len(emails) :
       /\ brought[i].matches > 0
       /\ lower(emails[i].from.name) \in AttendeeNames(meeting)

\* ------------------------------------------------ properties of the status
\* C24 as claimed: every ActionResult that run returns has one of the
\* terminal statuses Success, Partial, Failed, Skipped, never Pending or
\* Running.
C24_TerminalStatus ==
  (RunEnded /\ outcome.kind = "result") =>
    outcome.result.status \in {SUCCESS, PARTIAL, FAILED, SKIPPED}

\* ------------------------------------- properties of the detection, again
\* C25 as claimed: _detect_conflicts returns the same output for the same
\* meetings and the same corpus, whatever order the process iterates the
\* sets of topics in.
C25_Deterministic ==
  stage = "returned" =>
    \A order \in HashOrders(MostKeywords) :
      detect_conflicts(meetings, emails, order).value = conflicts

\* The pairs of positions, first before second.
Pairs == {p \in (1..Len(meetings)) \X (1..Len(meetings)) : p[1] < p[2]}

\* C26: a pair of meetings of which one has no start is not reported; a
\* pair of meetings that both have a start and of which one at least has no
\* end is reported if and only if the two starts are equal, whatever end the
\* other meeting has.
C26_MissingEndOrStart ==
  stage = "returned" =>
    \A p \in Pairs :
      LET m1 == meetings[p[1]]
          m2 == meetings[p[2]]
      IN /\ (m1.start = <<>> \/ m2.start = <<>>) => ~Reported(p[1], p[2])
         /\ (m1.start # <<>> /\ m2.start # <<>> /\ (m1.end = <<>> \/ m2.end = <<>>)) =>
              (Reported(p[1], p[2]) <=> m1.start = m2.start)

\* A meeting without end is reported with the meeting of the same start,
\* and not with a meeting that starts later and has an end.
C26_Witness ==
  /\ stage = "returned"
  /\ \E p \in Pairs :
       /\ meetings[p[1]].end # <<>> /\ meetings[p[2]].end = <<>>
       /\ meetings[p[1]].start = meetings[p[2]].start
       /\ Reported(p[1], p[2])
  /\ \E p \in Pairs :
       /\ meetings[p[1]].end = <<>> /\ meetings[p[2]].end # <<>>
       /\ StrLess(meetings[p[1]].start, meetings[p[2]].start)
       /\ ~Reported(p[1], p[2])

\* -------------------------------------- properties of the domain failures
\* ActionResult.tools_used: the names of the tools of a trace.
tools_used(calls) == [i \in 1..Len(calls) |-> calls[i].tool_name]

\* The run ended Failed by fail(error), no exception raised.
FailedBy(error) ==
  /\ outcome.kind = "result"
  /\ outcome.result.status = FAILED
  /\ outcome.result.error = error
  /\ outcome.result.output = None
  /\ obs.caught = NoExc

\* C30: colleague_lookup and get_email_thread run without their context key
\* return Failed through fail with an empty trace, no tool asked for;
\* colleague_lookup whose find_colleague returned an error marker or no
\* name returns Failed through fail with the trace [find_colleague];
\* meeting_prep without meeting_id asks for get_calendar only when
\* get_todays_meetings has returned no meeting, and returns Failed through
\* fail with the trace [get_todays_meetings, get_calendar] when get_calendar
\* has returned none either. No exception is involved.
C30_DomainFailures ==
  /\ (RunEnded /\ inst.cls = "ColleagueLookupAction"
        /\ "colleague_name" \notin obs.given) =>
       /\ FailedBy("colleague_name required in context")
       /\ outcome.result.tool_calls = <<>>
       /\ obs.call = NoCall
  /\ (RunEnded /\ inst.cls = "EmailThreadAction" /\ "email_id" \notin obs.given) =>
       /\ FailedBy("email_id required in context")
       /\ outcome.result.tool_calls = <<>>
       /\ obs.call = NoCall
  /\ (RunEnded /\ inst.cls = "ColleagueLookupAction"
        /\ inst.tool_calls # <<>>
        /\ inst.tool_calls[1].result \in {"error", "empty"}) =>
       /\ FailedBy("Colleague not found: name")
       /\ tools_used(outcome.result.tool_calls) = <<"find_colleague">>
       /\ obs.call.tool = "find_colleague"
  /\ (inst.cls = "MeetingPrepAction" /\ "meeting_id" \notin obs.given) =>
       /\ obs.call.tool = "get_calendar" =>
            /\ obs.call.before = <<ToolCall("get_todays_meetings", "empty", None)>>
       /\ (RunEnded /\ Len(inst.tool_calls) = 2
             /\ inst.tool_calls[1].result = "empty"
             /\ inst.tool_calls[2].result = "empty") =>
            /\ FailedBy("No upcoming meetings found")
            /\ tools_used(outcome.result.tool_calls) =
                 <<"get_todays_meetings", "get_calendar">>

\* meeting_prep, run without meeting_id, found no meeting today and none in
\* the calendar.
C30_Witness ==
  /\ RunEnded
  /\ inst.cls = "MeetingPrepAction"
  /\ "meeting_id" \notin obs.given
  /\ tools_used(outcome.result.tool_calls) = <<"get_todays_meetings", "get_calendar">>
  /\ FailedBy("No upcoming meetings found")

\* colleague_lookup stopped after find_colleague: the colleague is unknown.
C30_WitnessLookup ==
  /\ RunEnded
  /\ inst.cls = "ColleagueLookupAction"
  /\ tools_used(outcome.result.tool_calls) = <<"find_colleague">>
  /\ FailedBy("Colleague not found: name")

\* ------------------------- DailyBriefingAction.execute with its documents
\* The briefing of definitions.py 269-314 and 409-492 once more, with the
\* documents its tools return: a payload is a JSON object with the fields
\* the workflow reads (a field that is missing has the value of its
\* default), or text that is no JSON.
TextPayload == [doc |-> FALSE]

WhoamiDoc(name) == [doc |-> TRUE, name |-> name]

MeetingsDoc(ms) == [doc |-> TRUE, meetings |-> ms]

EmailsDoc(es) == [doc |-> TRUE, emails |-> es]

ResultsDoc(es) == [doc |-> TRUE, results |-> es]

\* An email with no field at all: email.get("from", {}) is a dict without
\* a name.
BlankEmail == Unpreviewed(Nameless(<<>>), <<>>, <<>>)

\* How many meetings today's document holds, at most.
MaxBriefed == 2

\* Today's meetings: one of four keywords, one of two with an agenda, one
\* without end whose attendee is known by address only, one with no field.
BriefedMeetings == {BroadMeeting, BudgetMeeting, OpenMeeting, NoMeeting}

Documents(tool) ==
  CASE tool = "whoami" ->
         {WhoamiDoc(<<"A", "n", "n">>), WhoamiDoc(<<>>), TextPayload}
    [] tool = "get_todays_meetings" ->
         {MeetingsDoc(ms) :
            ms \in UNION {[1..k -> BriefedMeetings] : k \in 0..MaxBriefed}}
           \cup {TextPayload}
    [] tool = "get_inbox" -> {EmailsDoc(Corpus), EmailsDoc(<<>>), TextPayload}
    [] tool = "get_sent" -> {EmailsDoc(<<BlankEmail>>), EmailsDoc(<<>>), TextPayload}
    [] tool = "search_emails" -> {ResultsDoc(<<DanEmail>>), TextPayload}

\* The most keywords a meeting of the day has.
MostBriefed ==
  LET counts == {Len(extract_keywords(m.subject, m.body)) : m \in BriefedMeetings}
  IN CHOOSE n \in counts : \A c \in counts : c <= n

NoPayload == [doc |-> FALSE, unset |-> TRUE]

\* The locals of execute; i is the position of the meeting of the loop.
BriefingLocals ==
  [me |-> NoPayload, today_meetings |-> NoPayload, inbox |-> NoPayload,
   sent |-> NoPayload, search_result |-> NoPayload, meetings |-> <<>>,
   all_recent_emails |-> <<>>, briefings |-> <<>>, i |-> 0]

\* The observations of NoObs, and: detected, how often _detect_conflicts
\* was called; queries, the query of every search_emails call.
BriefingObs ==
  [call |-> NoCall, ok |-> 0, failed |-> 0, unknown |-> 0, caught |-> NoExc,
   given |-> {}, name |-> "daily_briefing", detected |-> 0, queries |-> <<>>]

\* Lines 431-437 for one email: the attendees are tried in order until one
\* is involved; an attendee that is a dict (not an empty one, which is
\* falsy) has no lower().
RECURSIVE involved(_, _, _)
involved(attendee_names, sender_name, k) ==
  IF k > Len(attendee_names) THEN "no"
  ELSE IF attendee_names[k].dict /\ ~attendee_names[k].named
  THEN IF attendee_names[k].email # <<>> THEN "raise"
       ELSE involved(attendee_names, sender_name, k + 1)
  ELSE IF attendee_names[k].name # <<>>
          /\ Contains(lower(sender_name), lower(attendee_names[k].name))
  THEN "yes"
  ELSE involved(attendee_names, sender_name, k + 1)

\* " ".join(keywords[:3]), as the list of the words joined.
QueryWords == 3

search_query_all(kws) == kws

search_query(kws) == Slice(kws, QueryWords)

\* _process_meeting up to its search (lines 411-444): the exception raised,
\* or the keywords and the emails of the attendees. attendee_names holds
\* the name of an attendee dict, the dict itself when it has no name, and
\* an attendee str as it is.
process_meeting_head(m, es) ==
  LET attendee_names == m.attendees
      verdict == [e \in 1..Len(es) |-> involved(attendee_names, es[e].from.name, 1)]
  IN [exc |-> IF \E e \in 1..Len(es) : verdict[e] = "raise"
              THEN AttributeError ELSE NoExc,
      keywords |-> extract_keywords(m.subject, m.body),
      attendee_emails |-> SelectSeq([e \in 1..Len(es) |-> [at |-> e, email |-> es[e]]],
                                    LAMBDA x : verdict[x.at] = "yes")]

\* What _process_meeting returns (lines 477-492), without the collaborators
\* and findings, which are counted and cut out of the two lists of emails
\* and neither raise nor call a tool.
process_meeting_tail(m, head, topic_emails) ==
  [meeting |-> [subject |-> m.subject, time |-> m.start, organizer |-> <<>>,
                attendees |-> m.attendees, location |-> <<>>],
   agenda_keywords |-> head.keywords,
   email_count |-> [from_attendees |-> Len(head.attendee_emails),
                    topic_related |-> Len(topic_emails)]]

\* The loop of lines 296-298 from meeting i on, up to the next search: it
\* raises, stops at the search of a meeting with keywords, or is done.
RECURSIVE process_meetings(_, _, _, _)
process_meetings(ms, es, i, briefings) ==
  IF i > Len(ms) THEN [kind |-> "done", exc |-> NoExc, i |-> i, briefings |-> briefings]
  ELSE LET head == process_meeting_head(ms[i], es) IN
       IF head.exc # NoExc
       THEN [kind |-> "raise", exc |-> head.exc, i |-> i, briefings |-> briefings]
       ELSE IF head.keywords # <<>>
       THEN [kind |-> "search", exc |-> NoExc, i |-> i, briefings |-> briefings]
       ELSE process_meetings(ms, es, i + 1,
                             Append(briefings, process_meeting_tail(ms[i], head, <<>>)))

TypeError == Exc("Logic", "sequence item 0: expected str instance, dict found")

\* _format_for_print (lines 523-597): the exception it raises, joining
\* attendees that are no str (line 565).
format_for_print(briefings) ==
  IF \E b \in 1..Len(briefings) :
       \E a \in 1..Len(briefings[b].meeting.attendees) :
         /\ a <= 5
         /\ briefings[b].meeting.attendees[a].dict
         /\ ~briefings[b].meeting.attendees[a].named
  THEN TypeError
  ELSE NoExc

NoMeetingsMessage == "No meetings scheduled for today."

\* The output of lines 278-283 and of lines 304-312.
NoMeetingsOutput(me) ==
  [user |-> me.name, message |-> NoMeetingsMessage, briefings |-> <<>>,
   conflicts |-> <<>>, meetings_count |-> 0]

BriefingOutput(me, ms, found_, briefings) ==
  [user |-> me.name, message |-> "", briefings |-> briefings,
   conflicts |-> found_, meetings_count |-> Len(ms)]

BriefingOutcomes(tool) ==
  {Returns(p) : p \in Documents(tool)} \cup {Raises(m) : m \in ToolMessages}

BriefingFrame ==
  UNCHANGED <<actions, tools, registered, phase, outcome, listed, found, helpers, callers>>

\* base[var] = self.call_tool(tool, ...), base being the locals by then.
BriefingInvoke(tool, var, next, newctx, base, query) ==
  \E o \in BriefingOutcomes(tool) :
    LET r == call_tool(inst, tool, o) IN
    /\ inst' = r.self
    /\ exc' = r.exc
    /\ obs' = [Observe(tool, o, r) EXCEPT !.queries = @ \o query]
    /\ ctx' = newctx
    /\ pc' = IF r.exc = NoExc THEN next ELSE "raised"
    /\ locals' = IF r.exc = NoExc THEN [base EXCEPT ![var] = r.value] ELSE base
    /\ UNCHANGED ret

\* The loop from meeting i on, then lines 300-314.
Briefing_process(i, briefings, newctx) ==
  LET step == process_meetings(locals.meetings, locals.all_recent_emails, i, briefings)
      base == [locals EXCEPT !.i = step.i, !.briefings = step.briefings]
  IN IF step.kind = "search"
     THEN BriefingInvoke("search_emails", "search_result", "searched", newctx, base,
                         <<search_query(extract_keywords(locals.meetings[step.i].subject,
                                                         locals.meetings[step.i].body))>>)
     ELSE IF step.kind = "raise"
     THEN /\ Throw(step.exc.msg, newctx)
     ELSE \E order \in HashOrders(MostBriefed) :
            LET found_ == detect_conflicts(locals.meetings, locals.all_recent_emails, order)
                failure == IF found_.exc # NoExc THEN found_.exc
                           ELSE IF ~locals.me.doc THEN Exc("Logic", NoGet)
                           ELSE format_for_print(step.briefings)
            IN /\ obs' = [obs EXCEPT !.detected = @ + 1]
               /\ ctx' = newctx
               /\ locals' = base
               /\ UNCHANGED inst
               /\ IF failure # NoExc
                  THEN /\ exc' = failure
                       /\ pc' = "raised"
                       /\ UNCHANGED ret
                  ELSE /\ ret' = complete(inst, BriefingOutput(locals.me, locals.meetings,
                                                               found_.value, step.briefings),
                                          SUCCESS)
                       /\ pc' = "returned"
                       /\ UNCHANGED exc

Briefing_whoami ==
  /\ Running("DailyBriefingAction") /\ pc = "start" /\ BriefingFrame
  /\ BriefingInvoke("whoami", "me", "me", ctx, locals, <<>>)

Briefing_todays_meetings ==
  /\ Running("DailyBriefingAction") /\ pc = "me" /\ BriefingFrame
  /\ BriefingInvoke("get_todays_meetings", "today_meetings", "today",
                    ctx \cup {"user"}, locals, <<>>)

\* Lines 277-283 left out: the emails are fetched with no meetings, too.
Briefing_no_meetings_fetching ==
  /\ Running("DailyBriefingAction") /\ pc = "today" /\ BriefingFrame
  /\ locals.today_meetings.doc /\ locals.today_meetings.meetings = <<>>
  /\ BriefingInvoke("get_inbox", "inbox", "inbox", ctx, locals, <<>>)

\* Lines 275-283: no meetings.
Briefing_no_meetings ==
  /\ Running("DailyBriefingAction") /\ pc = "today" /\ BriefingFrame
  /\ locals.today_meetings.doc /\ locals.today_meetings.meetings = <<>>
  /\ IF ~locals.me.doc
     THEN Throw(NoGet, ctx)
     ELSE Return(complete(inst, NoMeetingsOutput(locals.me), SUCCESS), ctx)

\* Lines 275-288: meetings, or a document that cannot be read.
Briefing_inbox ==
  /\ Running("DailyBriefingAction") /\ pc = "today" /\ BriefingFrame
  /\ IF ~locals.today_meetings.doc
     THEN Throw(NoGet, ctx)
     ELSE /\ locals.today_meetings.meetings # <<>>
          /\ BriefingInvoke("get_inbox", "inbox", "inbox", ctx \cup {"meetings_count"},
                            [locals EXCEPT !.meetings = locals.today_meetings.meetings],
                            <<>>)

Briefing_sent ==
  /\ Running("DailyBriefingAction") /\ pc = "inbox" /\ BriefingFrame
  /\ BriefingInvoke("get_sent", "sent", "sent", ctx, locals, <<>>)

\* Lines 291-298, up to the first search.
Briefing_first_meeting ==
  /\ Running("DailyBriefingAction") /\ pc = "sent" /\ BriefingFrame
  /\ IF ~locals.inbox.doc \/ ~locals.sent.doc
     THEN Throw(NoGet, ctx)
     ELSE Briefing_process(1, <<>>, ctx \cup {"email_pool_size"})

\* Lines 446-492 of the meeting searched for, then the loop again. The
\* state read is the one with all_recent_emails set.
Briefing_next_meeting ==
  /\ Running("DailyBriefingAction") /\ pc = "searched" /\ BriefingFrame
  /\ IF ~locals.search_result.doc
     THEN Throw(NoGet, ctx)
     ELSE LET m == locals.meetings[locals.i]
              head == process_meeting_head(m, locals.all_recent_emails)
          IN Briefing_process(locals.i + 1,
                              Append(locals.briefings,
                                     process_meeting_tail(m, head, locals.search_result.results)),
                              ctx)

\* registry.execute("daily_briefing", context) has entered run: the six
\* definitions are registered, every tool is in the map.
BriefingInit ==
  /\ actions = [i \in 1..Len(Definitions) |-> <<NameOf(Definitions[i]), Definitions[i]>>]
  /\ tools = FullMap
  /\ registered = Definitions
  /\ phase = "running"
  /\ inst = run_enter(NewAction("DailyBriefingAction", FullMap))
  /\ pc = "start"
  /\ locals = BriefingLocals
  /\ exc = NoExc
  /\ ret = NoResult
  /\ ctx = {}
  /\ outcome = NoOutcome
  /\ listed = <<>>
  /\ found = <<>>
  /\ obs = BriefingObs
  /\ NoHelpers
  /\ NoCallers

BriefingNext ==
  \/ Briefing_whoami
  \/ Briefing_todays_meetings
  \/ Briefing_no_meetings
  \/ Briefing_inbox
  \/ Briefing_sent
  \/ Briefing_first_meeting
  \/ Briefing_next_meeting
  \/ Run_exit

BriefingSpec == BriefingInit /\ [][BriefingNext]_vars

\* ------------------------------------------- properties of the briefing
IsPrefix(a, b) == Len(a) <= Len(b) /\ \A i \in 1..Len(a) : a[i] = b[i]

\* get_todays_meetings has returned a document.
TodayRead ==
  /\ Len(inst.tool_calls) >= 2
  /\ inst.tool_calls[2].error = None
  /\ inst.tool_calls[2].result.doc

\* The meetings of today's document.
TodaysMeetings == inst.tool_calls[2].result.meetings

\* run has returned the result of the briefing.
BriefingEnded == phase = "done" /\ outcome.kind = "result"

BriefingTool(i) ==
  IF i <= 4
  THEN <<"whoami", "get_todays_meetings", "get_inbox", "get_sent">>[i]
  ELSE "search_emails"

\* C22: when a tool of the daily briefing raises, the call is the last one
\* of the run: the trace holds the records of the calls made, in the order
\* of the pipeline, the failing one last and the only one with an error;
\* execute returns nothing, and run returns Failed with the message of the
\* error, no output and that trace.
C22_ToolErrorStopsBriefing ==
  obs.failed >= 1 =>
    LET n == Len(inst.tool_calls) IN
    /\ obs.failed = 1
    /\ n = obs.ok + 1
    /\ obs.call.outcome.raises
    /\ obs.call.after = inst.tool_calls
    /\ inst.tool_calls[n].error = obs.call.outcome.msg
    /\ \A i \in 1..(n - 1) : inst.tool_calls[i].error = None
    /\ \A i \in 1..n : inst.tool_calls[i].tool_name = BriefingTool(i)
    /\ pc = "raised"
    /\ exc = Exc("ToolError", obs.call.outcome.msg)
    /\ ret = NoResult
    /\ phase = "done" =>
         /\ outcome.kind = "result"
         /\ outcome.result.status = FAILED
         /\ outcome.result.error = obs.call.outcome.msg
         /\ outcome.result.output = None
         /\ outcome.result.tool_calls = inst.tool_calls

\* The search for the second meeting raised, and run returned Failed with
\* six records.
C22_Witness ==
  /\ BriefingEnded
  /\ obs.failed = 1
  /\ obs.ok = 5
  /\ outcome.result.status = FAILED
  /\ tools_used(outcome.result.tool_calls)[6] = "search_emails"

\* Every tool called has returned a JSON object.
AllDocuments ==
  /\ obs.failed = 0
  /\ \A i \in 1..Len(inst.tool_calls) : inst.tool_calls[i].result.doc

\* C23 as claimed: a run of the briefing in which every tool returns a
\* JSON object, whatever fields its records omit, does not end Failed.
C23_MissingFieldsTolerated ==
  (BriefingEnded /\ AllDocuments) => outcome.result.status # FAILED

\* The queries the meetings ms are searched with: for every meeting with
\* keywords, in the order of ms, its first three.
RECURSIVE ExpectedQueries(_)
ExpectedQueries(ms) ==
  IF ms = <<>> THEN <<>>
  ELSE LET kws == extract_keywords(ms[1].subject, ms[1].body) IN
       (IF kws = <<>> THEN <<>> ELSE <<Slice(kws, 3)>>) \o ExpectedQueries(Tail(ms))

\* The briefings are those of the meetings ms, one each and in their order.
BriefingsOf(briefings, ms) ==
  /\ Len(briefings) = Len(ms)
  /\ \A i \in 1..Len(ms) :
       /\ briefings[i].meeting.subject = ms[i].subject
       /\ briefings[i].meeting.time = ms[i].start
       /\ briefings[i].meeting.attendees = ms[i].attendees
       /\ briefings[i].agenda_keywords = extract_keywords(ms[i].subject, ms[i].body)

\* A day with meetings, and every tool called has returned.
MeetingsAndNoToolError ==
  /\ BriefingEnded
  /\ obs.failed = 0
  /\ TodayRead
  /\ TodaysMeetings # <<>>

Unreadable ==
  \/ \E i \in 1..Len(inst.tool_calls) : ~inst.tool_calls[i].result.doc
  \/ \E i \in 1..Len(TodaysMeetings) :
       \E a \in 1..Len(TodaysMeetings[i].attendees) :
         /\ TodaysMeetings[i].attendees[a].dict
         /\ ~TodaysMeetings[i].attendees[a].named

MaxRuns == 2
\* ToolCall objects made by all the call_tool invocations together
MaxToolCalls == 3

\* [] : a new empty list object.
new_list(h) == [heap |-> Append(h, <<>>), id |-> Len(h) + 1]

\* tool_calls=self._tool_calls, the result naming the list of the instance.
copy_alias(h, id) == [heap |-> h, id |-> id]

\* list.copy(): a new list object holding the same records.
copy(h, id) == [heap |-> Append(h, h[id]), id |-> Len(h) + 1]

\* One instance for each class, made at the first execute and used again by
\* the later ones.
cached_instance(objs, h, cls, tool_registry) ==
  IF \E a \in 1..Len(objs) : objs[a].cls = cls
  THEN [objects |-> objs, heap |-> h,
        id |-> CHOOSE a \in 1..Len(objs) : objs[a].cls = cls]
  ELSE [objects |-> Append(objs, [NewAction(cls, tool_registry)
                                    EXCEPT !.tool_calls = new_list(h).id]),
        heap |-> new_list(h).heap,
        id |-> Len(objs) + 1]

\* action_class(tool_registry=self._tools): a new instance, with the new
\* list Action.__init__ gives it.
new_instance(objs, h, cls, tool_registry) ==
  [objects |-> Append(objs, [NewAction(cls, tool_registry)
                               EXCEPT !.tool_calls = new_list(h).id]),
   heap |-> new_list(h).heap,
   id |-> Len(objs) + 1]

\* The instance a as call_tool, complete and fail read it: its _tool_calls
\* is what its list holds now.
Deref(a) == [objects[a] EXCEPT !.tool_calls = heap[@]]

\* The ToolCall objects made so far: each is in the list it was appended to.
ToolCallsMade(h) == UNION {Range(h[i]) : i \in 1..Len(h)}

\* How many ToolCall objects were made so far.
Made(h) == Cardinality({c.id : c \in ToolCallsMade(h)})

\* The ToolCall object of record call, the n-th made.
Stamped(call, n) ==
  [tool_name |-> call.tool_name, result |-> call.result,
   error |-> call.error, id |-> n]

\* What call_tool made of the list `before` of the instance: `after` is the
\* list as call_tool left it, its new record being the next object made.
Appended(before, after, h) ==
  IF Len(after) > Len(before)
  THEN Append(before, Stamped(after[Len(after)], Made(h) + 1))
  ELSE before

\* The actions the callers ask the registry for, and the tools their
\* executes call: whoami is in the capability map, read_email is not.
CallerNames == {"daily_summary", "get_email_thread"}
CallerTypes == {"CustomAction"}
CallerTools == {"whoami", "read_email"}
CallerOutcomes == {Returns("doc"), Raises("boom")}

\* What an execute hands run: the result of complete(...) or of fail(...)
\* when it returns, nothing when it raised.
CallerReturns(self, e) ==
  IF e = NoExc
  THEN {complete(self, "doc", SUCCESS), fail(self, "not found")}
  ELSE {NoResult}

\* Action.run(context) on instance a, up to execute: the instance gets a new
\* list. `via` tells a run made by ActionRegistry.execute from one a caller
\* made on an instance it kept.
StartRun(objs, h, a, via) ==
  /\ heap' = new_list(h).heap
  /\ objects' = [objs EXCEPT ![a].tool_calls = new_list(h).id]
  /\ runs' = Append(runs, [inst |-> a, via |-> via, calls |-> <<>>,
                           exc |-> NoExc, active |-> TRUE])
  /\ UNCHANGED <<results, framework, helpers>>

\* ActionRegistry.execute(action_name, context) on a thread of its own, up to
\* the instance's execute.
Caller_execute(action_name) ==
  /\ Len(runs) < MaxRuns
  /\ Get(actions, action_name) # None
  /\ LET made == new_instance(objects, heap, Get(actions, action_name), tools)
     IN StartRun(made.objects, made.heap, made.id, "execute")

\* The caller's own thread is inside no run: run returns before the caller
\* goes on.
Idle == \A r \in 1..Len(runs) : ~runs[r].active

\* action.run(context) on an instance the caller kept from an earlier run.
Caller_run(a) ==
  /\ Len(runs) < MaxRuns
  /\ Idle
  /\ StartRun(objects, heap, a, "run")

\* action = action_class(tool_registry=tools); action.run(context): a caller
\* making an instance itself, and keeping it.
Caller_new(cls) ==
  /\ Len(runs) < MaxRuns
  /\ Idle
  /\ LET made == new_instance(objects, heap, cls, tools)
     IN StartRun(made.objects, made.heap, made.id, "run")

\* self.call_tool(tool, ...) inside the execute of run r.
Caller_call_tool(r, tool, o) ==
  /\ runs[r].active
  /\ runs[r].exc = NoExc
  /\ Made(heap) < MaxToolCalls
  /\ LET a == runs[r].inst
         list == objects[a].tool_calls
         made == call_tool(Deref(a), tool, o)
         now == Appended(heap[list], made.self.tool_calls, heap)
     IN /\ heap' = [heap EXCEPT ![list] = now]
        /\ runs' = [runs EXCEPT ![r].exc = made.exc,
                                ![r].calls =
                                   IF tool \in objects[a].tools
                                   THEN Append(@, now[Len(now)])
                                   ELSE @]
  /\ UNCHANGED <<objects, results, framework, helpers>>

\* action.call_tool(tool, ...) by a caller, on an instance whose run is over.
Caller_later_call(a, tool, o) ==
  /\ Idle
  /\ Made(heap) < MaxToolCalls
  /\ LET list == objects[a].tool_calls
         made == call_tool(Deref(a), tool, o)
     IN heap' = [heap EXCEPT ![list] =
                   Appended(heap[list], made.self.tool_calls, heap)]
  /\ UNCHANGED <<objects, runs, results, framework, helpers>>

\* The execute of run r returns or raises, and run hands the caller a
\* result: what execute returned, or fail(str(e)). complete and fail give
\* the result a copy of the list.
Caller_finish(r) ==
  /\ runs[r].active
  /\ LET a == runs[r].inst
         snapshot == copy(heap, objects[a].tool_calls)
     IN \E result \in CallerReturns(Deref(a), runs[r].exc) :
          /\ heap' = snapshot.heap
          /\ results' =
               Append(results,
                      [run |-> r,
                       result |-> [run_exit(Deref(a), result, runs[r].exc).result
                                     EXCEPT !.tool_calls = snapshot.id]])
  /\ runs' = [runs EXCEPT ![r].active = FALSE]
  /\ UNCHANGED <<objects, framework, helpers>>

\* The registry of backend.actions once definitions.py is loaded and the
\* seven capabilities are set; no caller has run anything yet.
CallerInit ==
  /\ actions = [i \in 1..Len(Definitions) |-> <<NameOf(Definitions[i]), Definitions[i]>>]
  /\ tools = CoreMap
  /\ registered = Definitions
  /\ phase = "idle"
  /\ inst = NoInst
  /\ pc = "none"
  /\ locals = NoLocals
  /\ exc = NoExc
  /\ ret = NoResult
  /\ ctx = {}
  /\ outcome = NoOutcome
  /\ listed = <<>>
  /\ found = <<>>
  /\ obs = NoObs
  /\ NoHelpers
  /\ NoCallers

\* One caller, on one thread, that makes instances and keeps them and
\* their results.
CallerNext ==
  \/ \E c \in CallerTypes : Caller_new(c)
  \/ \E a \in 1..Len(objects) : Caller_run(a)
  \/ \E r \in 1..Len(runs), t \in CallerTools, o \in CallerOutcomes :
       Caller_call_tool(r, t, o)
  \/ \E a \in 1..Len(objects), t \in CallerTools, o \in CallerOutcomes :
       Caller_later_call(a, t, o)
  \/ \E r \in 1..Len(runs) : Caller_finish(r)

CallerSpec == CallerInit /\ [][CallerNext]_vars

\* Callers on threads of their own, each inside one ActionRegistry.execute:
\* a step is taken by any of the runs under way.
ThreadsNext ==
  \/ \E n \in CallerNames : Caller_execute(n)
  \/ \E r \in 1..Len(runs), t \in CallerTools, o \in CallerOutcomes :
       Caller_call_tool(r, t, o)
  \/ \E r \in 1..Len(runs) : Caller_finish(r)

ThreadsSpec == CallerInit /\ [][ThreadsNext]_vars

\* ------------------------------------------- properties of kept results
\* The trace of the k-th result handed out: what its tool_calls list holds.
Trace(k) == heap[results[k].result.tool_calls]

\* The instance the k-th result was made by, and whether an earlier run of
\* that instance had been made.
InstanceOf(k) == runs[results[k].run].inst
Rerun(k) ==
  \E r \in 1..(results[k].run - 1) : runs[r].inst = InstanceOf(k)

\* C28: when an instance is run again, the result of the later run holds
\* only the ToolCall records its own run made, in call order; and a result
\* once returned is a snapshot: no later step (a later run of the instance,
\* a later call_tool on it) changes the result or what its trace holds.
C28_RunClearsSnapshotKept ==
  [][/\ \A k \in 1..Len(results) :
          /\ results'[k] = results[k]
          /\ heap'[results[k].result.tool_calls] = Trace(k)
     /\ \A k \in 1..Len(results') :
          (\E r \in 1..(results'[k].run - 1) :
              runs'[r].inst = runs'[results'[k].run].inst)
          => heap'[results'[k].result.tool_calls] = runs'[results'[k].run].calls
    ]_vars

\* An instance was run twice, each run recording a call, and the caller
\* made one more call on the instance after the second run.
C28_Witness ==
  \E j, k \in 1..Len(results) :
    /\ j < k
    /\ InstanceOf(j) = InstanceOf(k)
    /\ Trace(j) # <<>>
    /\ Trace(k) # <<>>
    /\ Idle
    /\ Len(heap[objects[InstanceOf(k)].tool_calls]) > Len(Trace(k))

\* C29: every result ActionRegistry.execute returned holds exactly the
\* ToolCall records its own run made, in that run's call order, whatever
\* the other runs under way did in between.
C29_TracesIsolated ==
  \A k \in 1..Len(results) :
    runs[results[k].run].via = "execute"
    => Trace(k) = runs[results[k].run].calls

\* Two executes overlapped: the one started first recorded a call after a
\* call of the one started later, and both returned their results.
C29_Witness ==
  \E j, k \in 1..Len(results) :
    /\ results[j].run < results[k].run
    /\ runs[results[j].run].via = "execute"
    /\ runs[results[k].run].via = "execute"
    /\ \E c \in Range(Trace(j)), d \in Range(Trace(k)) : c.id > d.id
====
